---- MODULE Spec2Model ----
(***************************************************************************)
(* The message dispatch and resilience core of go_integration: the         *)
(* subscription pumps (internal/pubsub Client.Receive, user.ProcessMessage),*)
(* the worker's routing (cmd/worker run), the EmailQueueHandler handlers   *)
(* and the retry executor (EmailQueueHandler.retry).                       *)
(*                                                                         *)
(* Time is counted in milliseconds.  Errors are the strings "nil"/"err".   *)
(***************************************************************************)
EXTENDS Integers, Sequences, FiniteSets, TLC

\* ------------------------------------------------------------------------
\* Bounds of the model and constants of the program
\* ------------------------------------------------------------------------

\* number of messages the broker delivers in one behaviour
MaxMsgs == 2
\* the number of EnsureTopic / EnsureSubscription calls in a run
MaxCalls == 3
\* the number of calls of the publish operations in a run
MaxPublishes == 2
\* the longest text of a payload field handed to ToJSON
MaxStrLen == 2
\* the number of characters put before and after a subject's core
MaxPad == 1
\* the largest maxAttempts the retry implementations are compared on
MaxTries == 3

\* h.retry(ctx, 3, 2*time.Second, ...) in every handler
HandlerMaxRetries == 3
HandlerDelayMs == 2000
\* time.Sleep(600 * time.Millisecond) at the head of SendEmailWithHTML
SendPacingMs == 600

Pumps == {"email", "verification", "user"}

Min(a, b) == IF a < b THEN a ELSE b

\* ------------------------------------------------------------------------
\* Message bytes.  A message body is described by what encoding/json sees:
\* whether it is syntactically valid JSON, the kind of its top-level value
\* and, for an object, the value of each key.  A value is a JSON string, a
\* JSON number or JSON null.
\* ------------------------------------------------------------------------

JStr(s) == [t |-> "string", s |-> s]
JNum == [t |-> "number", s |-> ""]
JNull == [t |-> "null", s |-> ""]

NoFields == [k \in {} |-> JNull]

Garbage == [wf |-> FALSE, top |-> "other", fields |-> NoFields]
JsonArray == [wf |-> TRUE, top |-> "other", fields |-> NoFields]
JsonNull == [wf |-> TRUE, top |-> "null", fields |-> NoFields]
JsonObject(f) == [wf |-> TRUE, top |-> "object", fields |-> f]

\* struct tags of the three payload types
EmailFields == {"to", "subject", "body"}
VerificationFields == {"to", "username", "token", "code", "verify_url"}
UserFields == {"id", "email", "name", "username"}

\* json.Unmarshal(data, &payload) into a struct of string fields:
\* a syntax error or a JSON value of the wrong type is an error; null and
\* absent keys leave the zero value; unknown keys are ignored.
UnmarshalErr(doc, target) ==
    \/ ~doc.wf
    \/ doc.top = "other"
    \/ /\ doc.top = "object"
       /\ \E k \in (DOMAIN doc.fields) \cap target : doc.fields[k].t = "number"

UnmarshalValue(doc, target) ==
    [k \in target |->
        IF doc.top = "object" /\ k \in DOMAIN doc.fields /\ doc.fields[k].t = "string"
        THEN doc.fields[k].s
        ELSE ""]

Unmarshal(doc, target) ==
    [err |-> IF UnmarshalErr(doc, target) THEN "err" ELSE "nil",
     payload |-> UnmarshalValue(doc, target)]

\* json.Marshal of an EmailPayload / UserPayload / VerificationEmailPayload
EmailToJSON(to, subject, body) ==
    JsonObject([k \in EmailFields |->
        CASE k = "to" -> JStr(to) [] k = "subject" -> JStr(subject) [] k = "body" -> JStr(body)])

UserToJSON(id, email, name) ==
    JsonObject([k \in {"id", "email", "name"} |->
        CASE k = "id" -> JStr(id) [] k = "email" -> JStr(email) [] k = "name" -> JStr(name)])

VerificationToJSON(to, username, url) ==
    JsonObject([k \in {"to", "username", "verify_url"} |->
        CASE k = "to" -> JStr(to) [] k = "username" -> JStr(username)
          [] k = "verify_url" -> JStr(url)])

\* an object whose subject is a JSON number
SubjectIsNumber ==
    JsonObject([k \in {"to", "subject"} |-> IF k = "to" THEN JStr("a@x.com") ELSE JNum])

\* The message bodies the broker may deliver on a subscription.
Docs ==
    { Garbage, JsonArray, JsonNull,
      EmailToJSON("a@x.com", "Bem-vindo", "Hi"),
      EmailToJSON("a@x.com", "Report", "Hi"),
      SubjectIsNumber,
      UserToJSON("u1", "a@x.com", "Ana"),
      VerificationToJSON("a@x.com", "ana", "https://v/1") }

NoMsg == [wf |-> FALSE, top |-> "none", fields |-> NoFields]

\* ------------------------------------------------------------------------
\* State
\* ------------------------------------------------------------------------
VARIABLES
    pc,         \* per pump: where the callback for the current message stands
    msg,        \* per pump: the bytes of the message being (or last) processed
    rs,         \* per pump: the frame of the running retry executor
    stack,      \* per pump: the handlers invoked for the message, in call order
    sent,       \* per pump: the send requests issued to the delivery client
    herr,       \* per pump: what the handler returned ("none" before it returns)
    ack,        \* per pump: the acknowledgment decision ("none", "ack", "nack")
    delivered,  \* number of messages delivered so far
    wk,         \* the worker process: context, receive loops, errChan, run()
    bk,         \* the broker's topics and subscriptions and the Ensure callers
    pub,        \* the publish side: the topics' messages and the last call
    pure        \* the last application of a pure function: input and result

pumpVars == <<pc, msg, rs, stack, sent, herr, ack, delivered>>

vars == <<pc, msg, rs, stack, sent, herr, ack, delivered, wk, bk, pub, pure>>

\* ------------------------------------------------------------------------
\* Retry executor: EmailQueueHandler.retry
\* ------------------------------------------------------------------------

\* (variant: the attempt counter starts at 2)
retry_Init_StartsAtTwo(maxRetries, delay) ==
    [maxRetries |-> maxRetries, delay |-> delay,
     attempt |-> 2, calls |-> 0, waits |-> 0, elapsed |-> 0,
     outs |-> <<>>, lastErr |-> "nil", at |-> "loop", result |-> "none"]

\* the frame on entry: var lastErr error; attempt := 1
retry_Init(maxRetries, delay) ==
    [maxRetries |-> maxRetries, delay |-> delay,
     attempt |-> 1, calls |-> 0, waits |-> 0, elapsed |-> 0,
     outs |-> <<>>, lastErr |-> "nil", at |-> "loop", result |-> "none"]

NoFrame == [retry_Init(0, 0) EXCEPT !.at = "none"]

\* the loop condition attempt <= maxRetries, and the code after the loop:
\* log "All retry attempts failed", return nil
retry_Head(r) ==
    IF r.attempt <= r.maxRetries
    THEN [r EXCEPT !.at = "call"]
    ELSE [r EXCEPT !.at = "ret", !.result = "nil"]

\* one pass of the loop body from err := fn() up to the sleep; err is what
\* fn() returned and cost the time fn() took.  Variants: a loop that stops one
\* attempt early, one that returns lastErr after the loop, one that does not
\* return on success.
retry_Attempt_OffByOne(r, err, cost) ==
    LET r1 == [r EXCEPT !.calls = @ + 1, !.outs = Append(@, err),
                        !.elapsed = @ + cost]
    IN  IF err = "nil"
        THEN [r1 EXCEPT !.at = "ret", !.result = "nil"]
        ELSE IF r.attempt + 1 < r.maxRetries
             THEN [r1 EXCEPT !.lastErr = err, !.at = "sleep"]
             ELSE [r1 EXCEPT !.lastErr = err, !.at = "ret", !.result = "nil"]

retry_Attempt_ReturnsLastErr(r, err, cost) ==
    LET r1 == [r EXCEPT !.calls = @ + 1, !.outs = Append(@, err),
                        !.elapsed = @ + cost]
    IN  IF err = "nil"
        THEN [r1 EXCEPT !.at = "ret", !.result = "nil"]
        ELSE IF r.attempt < r.maxRetries
             THEN [r1 EXCEPT !.lastErr = err, !.at = "sleep"]
             ELSE [r1 EXCEPT !.lastErr = err, !.at = "ret", !.result = err]

retry_Attempt_NoEarlyReturn(r, err, cost) ==
    LET r1 == [r EXCEPT !.calls = @ + 1, !.outs = Append(@, err),
                        !.elapsed = @ + cost]
    IN  IF r.attempt < r.maxRetries
        THEN [r1 EXCEPT !.lastErr = err, !.at = "sleep"]
        ELSE [r1 EXCEPT !.lastErr = err, !.at = "ret", !.result = "nil"]

\* (variant: the loop sleeps after every failed attempt, the last included)
retry_Attempt_SleepsAfterLast(r, err, cost) ==
    LET r1 == [r EXCEPT !.calls = @ + 1, !.outs = Append(@, err),
                        !.elapsed = @ + cost]
    IN  IF err = "nil"
        THEN [r1 EXCEPT !.at = "ret", !.result = "nil"]
        ELSE [r1 EXCEPT !.lastErr = err, !.at = "sleep"]

retry_Attempt(r, err, cost) ==
    LET r1 == [r EXCEPT !.calls = @ + 1, !.outs = Append(@, err),
                        !.elapsed = @ + cost]
    IN  IF err = "nil"
        THEN [r1 EXCEPT !.at = "ret", !.result = "nil"]
        ELSE IF r.attempt < r.maxRetries
             THEN [r1 EXCEPT !.lastErr = err, !.at = "sleep"]
             ELSE retry_Head([r1 EXCEPT !.lastErr = err, !.attempt = @ + 1])

\* time.Sleep(delay), then attempt++ and the loop condition again (variant:
\* the sleep is skipped)
retry_Sleep_NoWait(r) ==
    retry_Head([r EXCEPT !.attempt = @ + 1])

retry_Sleep(r) ==
    retry_Head([r EXCEPT !.waits = @ + 1, !.elapsed = @ + r.delay,
                         !.attempt = @ + 1])

\* retry(ctx, ...) receives the context but never reads it: the sleep and the
\* next pass of the loop are the same whether or not ctx is cancelled
\* (variant: the loop gives up with ctx.Err() once the context is done)
retry_Resume_ChecksCtx(ctxDone, r) ==
    IF ctxDone
    THEN [r EXCEPT !.at = "ret", !.result = "err"]
    ELSE retry_Sleep(r)

retry_Resume(ctxDone, r) == retry_Sleep(r)

\* ------------------------------------------------------------------------
\* Templates and the delivery client
\* ------------------------------------------------------------------------

NoHTML == [template |-> "none", subject |-> "", body |-> "", username |-> "", code |-> ""]

\* email.GetDefaultEmailHTML(subject, body, companyName)
GetDefaultEmailHTML(subject, body) ==
    [NoHTML EXCEPT !.template = "default", !.subject = subject, !.body = body]

\* email.GetWelcomeEmailHTML(username, companyName)
GetWelcomeEmailHTML(username) ==
    [NoHTML EXCEPT !.template = "welcome", !.username = username]

\* email.GetVerificationEmailHTML(username, companyName, verificationCode)
GetVerificationEmailHTML(username, verificationCode) ==
    [NoHTML EXCEPT !.template = "verification", !.username = username,
                   !.code = verificationCode]

\* the request SendEmailWithHTML(to, subject, htmlBody) posts
EmailRequest(to, subject, html) == [to |-> to, subject |-> subject, html |-> html]

\* what SendEmailWithHTML returns for the provider's answer: nil on HTTP 200
\* with a decodable body, an error otherwise
SendOutcomes == {"ok", "http_error"}
SendEmailWithHTML(outcome) == IF outcome = "ok" THEN "nil" ELSE "err"

\* ------------------------------------------------------------------------
\* Handlers of EmailQueueHandler and the worker's routing
\* ------------------------------------------------------------------------

WelcomeSubject == "Bem-vindo(a) a NorthFi!"
VerificationSubject == "Confirme sua conta - Verificacao de Email"

\* models.VerificationEmailPayload.GenerateSubject
GenerateSubject(payload) == VerificationSubject

\* the handler each receive loop of run() is started with; the variant
\* Route_BySubject picks it by the subject, as the legacy entry points do
IsWelcomeSubjectOf(subject) == subject \in {"Bem-vindo", WelcomeSubject}

Route_BySubject(p, payload) ==
    CASE p = "email" -> IF IsWelcomeSubjectOf(payload["subject"])
                        THEN "HandleWelcomeMessage" ELSE "HandleEmailMessage"
      [] p = "verification" -> "HandleVerificationMessage"
      [] p = "user" -> "HandleUserMessage"

Route(p, payload) ==
    CASE p = "email" -> "HandleEmailMessage"
      [] p = "verification" -> "HandleVerificationMessage"
      [] p = "user" -> "HandleUserMessage"

\* (variant: the welcome e-mail is addressed to the user's id)
WelcomeEmailOf_ToID(user) ==
    [to |-> user["id"], subject |-> WelcomeSubject,
     body |-> <<"Ola", user["name"], "seja bem-vindo(a)">>]

\* HandleUserMessage: the welcome EmailPayload it builds and the display name
\* it passes on
WelcomeEmailOf(user) ==
    [to |-> user["email"], subject |-> WelcomeSubject,
     body |-> <<"Ola", user["name"], "seja bem-vindo(a)">>]

\* the handlers entered, in call order, when handler h is invoked
CallChain(h) ==
    IF h = "HandleUserMessage"
    THEN <<"HandleUserMessage", "HandleWelcomeMessage">>
    ELSE <<h>>

\* the request the fn closure of the innermost handler h issues
HandlerRequest(h, p, payload) ==
    CASE h = "HandleEmailMessage" ->
            EmailRequest(payload["to"], payload["subject"],
                         GetDefaultEmailHTML(payload["subject"], payload["body"]))
      [] h = "HandleWelcomeMessage" ->
            IF p = "user"
            THEN EmailRequest(WelcomeEmailOf(payload).to, WelcomeEmailOf(payload).subject,
                              GetWelcomeEmailHTML(payload["name"]))
            ELSE EmailRequest(payload["to"], payload["subject"], GetWelcomeEmailHTML(""))
      [] h = "HandleVerificationMessage" ->
            EmailRequest(payload["to"], GenerateSubject(payload),
                         GetVerificationEmailHTML(payload["username"], payload["verify_url"]))

\* what HandleUserMessage returns for the error of the delegated call
HandleUserMessage_Return(err) == IF err # "nil" THEN "err" ELSE "nil"

\* what the outermost handler returns once the retry executor returned
HandlerReturn(chain, result) ==
    IF chain[1] = "HandleUserMessage" THEN HandleUserMessage_Return(result) ELSE result

\* ------------------------------------------------------------------------
\* Subscription pump callback: Client.Receive / user.ProcessMessage
\* ------------------------------------------------------------------------

\* Client.Receive: json.Unmarshal(msg.Data, &payload) into an EmailPayload
Receive_Decode_Lenient(doc) ==
    [err |-> "nil", payload |-> UnmarshalValue(doc, EmailFields)]

Receive_Decode(doc) == Unmarshal(doc, EmailFields)

\* user.ProcessMessage: models.UserFromJSON(msg.Data)
ProcessMessage_Decode(doc) == Unmarshal(doc, UserFields)

\* Client.ReceiveVerification: the same callback for a VerificationEmailPayload
ReceiveVerification_Decode(doc) == Unmarshal(doc, VerificationFields)

\* (variant: the callback also rejects a payload with an empty required field)
Decode_Validating(p, doc) ==
    LET target == CASE p = "email" -> EmailFields
                    [] p = "verification" -> VerificationFields
                    [] p = "user" -> UserFields
        required == CASE p = "email" -> {"to", "subject", "body"}
                      [] p = "verification" -> {"to", "username"}
                      [] p = "user" -> {"id", "email", "name"}
        d == Unmarshal(doc, target)
    IN IF d.err = "nil" /\ \E k \in required : d.payload[k] = ""
       THEN [err |-> "err", payload |-> d.payload]
       ELSE d

\* the decode step of the callback of pump p
Decode(p, doc) ==
    CASE p = "email" -> Receive_Decode(doc)
      [] p = "verification" -> ReceiveVerification_Decode(doc)
      [] p = "user" -> ProcessMessage_Decode(doc)

\* Client.Receive after the handler returned: err != nil -> Nack, else Ack
AckDecision_AlwaysAck(err) == "ack"

AckDecision_Inverted(err) == IF err # "nil" THEN "ack" ELSE "nack"

AckDecision(err) == IF err # "nil" THEN "nack" ELSE "ack"

\* user.ProcessMessage after the handler returned
ProcessMessage_AckDecision(err) == IF err # "nil" THEN "nack" ELSE "ack"

\* Client.ReceiveVerification after the handler returned
ReceiveVerification_AckDecision(err) == IF err # "nil" THEN "nack" ELSE "ack"

\* the decision of the callback of pump p
PumpAck(p, err) ==
    CASE p = "email" -> AckDecision(err)
      [] p = "verification" -> ReceiveVerification_AckDecision(err)
      [] p = "user" -> ProcessMessage_AckDecision(err)

PayloadOf(p) == Decode(p, msg[p]).payload

\* ------------------------------------------------------------------------
\* Initial state and actions
\* ------------------------------------------------------------------------

\* the worker process before main() calls run()
WkInit ==
    [ctxDone |-> FALSE,
     loop |-> [p \in Pumps |-> "notStarted"],
     errChan |-> <<>>,
     firstErr |-> "none",
     run |-> "startup",
     step |-> 1,
     tried |-> <<>>,
     failed |-> {},
     result |-> "none",
     exit |-> "running",
     sigAtSelect |-> FALSE,
     errAtSelect |-> FALSE,
     inflight |-> {},
     sig |-> FALSE,
     env |-> [RESEND_API_KEY |-> "", RESEND_FROM_EMAIL |-> ""],
     svc |-> [apiKey |-> "", fromEmail |-> ""],
     built |-> FALSE,
     envReads |-> 0,
     uses |-> <<>>]

\* the resources of the broker and the processes that ensure them
Resources == {"topic", "subscription"}
Callers == {"worker", "api"}

NoCall == [at |-> "idle", res |-> "none", existed |-> FALSE, overlapped |-> FALSE]

\* an empty broker, nobody calling
BkInit ==
    [exists |-> {},
     pre |-> {},
     creates |-> [r \in Resources |-> 0],
     call |-> [c \in Callers |-> NoCall],
     log |-> <<>>,
     started |-> 0]

\* empty topics, no publish operation called yet
PubInit ==
    [topic |-> [p \in Pumps |-> <<>>],
     last |-> [op |-> "none", valid |-> FALSE, err |-> "none", published |-> FALSE],
     calls |-> 0, oks |-> 0]

PumpInit ==
    /\ pc = [p \in Pumps |-> "idle"]
    /\ msg = [p \in Pumps |-> NoMsg]
    /\ rs = [p \in Pumps |-> NoFrame]
    /\ stack = [p \in Pumps |-> <<>>]
    /\ sent = [p \in Pumps |-> {}]
    /\ herr = [p \in Pumps |-> "none"]
    /\ ack = [p \in Pumps |-> "none"]
    /\ delivered = 0

Init ==
    /\ PumpInit
    /\ wk = WkInit
    /\ bk = BkInit
    /\ pub = PubInit
    /\ pure = [fn |-> "none", arg |-> <<>>, out |-> <<>>]

\* sub.Receive hands the next message of subscription p to the callback
DeliverFrom(p, docs) ==
    /\ pc[p] = "idle"
    /\ delivered < MaxMsgs
    /\ \E doc \in docs : msg' = [msg EXCEPT ![p] = doc]
    /\ pc' = [pc EXCEPT ![p] = "callback"]
    /\ rs' = [rs EXCEPT ![p] = NoFrame]
    /\ stack' = [stack EXCEPT ![p] = <<>>]
    /\ sent' = [sent EXCEPT ![p] = {}]
    /\ herr' = [herr EXCEPT ![p] = "none"]
    /\ ack' = [ack EXCEPT ![p] = "none"]
    /\ delivered' = delivered + 1

Deliver(p) == DeliverFrom(p, Docs)

\* (variant: the callback Nacks on a decode error but does not return, and
\* goes on to the handler)
Callback_Decode_NoReturn(p) ==
    /\ pc[p] = "callback"
    /\ IF Decode(p, msg[p]).err # "nil"
       THEN ack' = [ack EXCEPT ![p] = "nack"]
       ELSE ack' = ack
    /\ pc' = [pc EXCEPT ![p] = "handler"]
    /\ UNCHANGED <<msg, rs, stack, sent, herr, delivered>>

\* the callback decodes; on an error it logs, Nacks and returns
Callback_Decode(p) ==
    /\ pc[p] = "callback"
    /\ IF Decode(p, msg[p]).err # "nil"
       THEN /\ ack' = [ack EXCEPT ![p] = "nack"]
            /\ pc' = [pc EXCEPT ![p] = "idle"]
       ELSE /\ ack' = ack
            /\ pc' = [pc EXCEPT ![p] = "handler"]
    /\ UNCHANGED <<msg, rs, stack, sent, herr, delivered>>

\* (variant: the callback starts the handler and acknowledges without waiting
\* for it to return)
Handler_Enter_AckFirst(p) ==
    /\ pc[p] = "handler"
    /\ stack' = [stack EXCEPT ![p] = CallChain(Route(p, PayloadOf(p)))]
    /\ rs' = [rs EXCEPT ![p] = retry_Head(retry_Init(HandlerMaxRetries, HandlerDelayMs))]
    /\ pc' = [pc EXCEPT ![p] = "retry"]
    /\ ack' = [ack EXCEPT ![p] = "ack"]
    /\ UNCHANGED <<msg, sent, herr, delivered>>

\* the callback invokes the handler of the receive loop; the handler (and the
\* welcome handler HandleUserMessage delegates to) sets up its logger and
\* enters retry(ctx, 3, 2*time.Second, fn, ...)
Handler_Enter(p) ==
    /\ pc[p] = "handler"
    /\ stack' = [stack EXCEPT ![p] = CallChain(Route(p, PayloadOf(p)))]
    /\ rs' = [rs EXCEPT ![p] = retry_Head(retry_Init(HandlerMaxRetries, HandlerDelayMs))]
    /\ pc' = [pc EXCEPT ![p] = "retry"]
    /\ UNCHANGED <<msg, sent, herr, ack, delivered>>

\* err := fn(): render, SendEmailWithHTML, and the branch on err
Retry_Call(p) ==
    /\ pc[p] = "retry"
    /\ rs[p].at = "call"
    /\ \E outcome \in SendOutcomes :
          rs' = [rs EXCEPT ![p] = retry_Attempt(@, SendEmailWithHTML(outcome), SendPacingMs)]
    /\ sent' = [sent EXCEPT ![p] =
                   @ \cup {HandlerRequest(stack[p][Len(stack[p])], p, PayloadOf(p))}]
    /\ UNCHANGED <<pc, msg, stack, herr, ack, delivered>>

\* time.Sleep(delay) returns
Retry_Wait(p) ==
    /\ pc[p] = "retry"
    /\ rs[p].at = "sleep"
    /\ rs' = [rs EXCEPT ![p] = retry_Resume(wk.ctxDone, @)]
    /\ UNCHANGED <<pc, msg, stack, sent, herr, ack, delivered>>

\* retry returns, and with it the handler(s) that called it
Handler_Return(p) ==
    /\ pc[p] = "retry"
    /\ rs[p].at = "ret"
    /\ herr' = [herr EXCEPT ![p] = HandlerReturn(stack[p], rs[p].result)]
    /\ pc' = [pc EXCEPT ![p] = "handled"]
    /\ UNCHANGED <<msg, rs, stack, sent, ack, delivered>>

\* the callback Acks or Nacks on the handler's error and returns
Callback_Ack(p) ==
    /\ pc[p] = "handled"
    /\ ack' = [ack EXCEPT ![p] = PumpAck(p, herr[p])]
    /\ pc' = [pc EXCEPT ![p] = "idle"]
    /\ UNCHANGED <<msg, rs, stack, sent, herr, delivered>>

Next ==
    /\ \E p \in Pumps :
          \/ Deliver(p)
          \/ Callback_Decode(p)
          \/ Handler_Enter(p)
          \/ Retry_Call(p)
          \/ Retry_Wait(p)
          \/ Handler_Return(p)
          \/ Callback_Ack(p)
    /\ UNCHANGED <<wk, bk, pub, pure>>

Spec == Init /\ [][Next]_vars

\* The pump taken alone: Client.Receive and ProcessMessage accept any handler
\* func(ctx, payload) error, so the handler's result is an input.
Handler_Any(p) ==
    /\ pc[p] = "handler"
    /\ \E e \in {"nil", "err"} : herr' = [herr EXCEPT ![p] = e]
    /\ stack' = [stack EXCEPT ![p] = <<"handler">>]
    /\ pc' = [pc EXCEPT ![p] = "handled"]
    /\ UNCHANGED <<msg, rs, sent, ack, delivered>>

NextReceive ==
    /\ \E p \in Pumps :
          \/ Deliver(p)
          \/ Callback_Decode(p)
          \/ Handler_Any(p)
          \/ Callback_Ack(p)
    /\ UNCHANGED <<wk, bk, pub, pure>>

SpecReceive == Init /\ [][NextReceive]_vars

\* ------------------------------------------------------------------------
\* Vocabulary of the properties
\* ------------------------------------------------------------------------

\* the retry executor of pump p has returned
Returned(p) == rs[p].at = "ret"

\* the callback of pump p has returned for its message
Finished(p) == pc[p] = "idle" /\ ack[p] # "none"

\* some invocation of the operation succeeded
Succeeded(outs) == \E i \in 1..Len(outs) : outs[i] = "nil"

\* k: the number of consecutive failures before the first success
ConsecutiveFailures(outs) ==
    IF Succeeded(outs)
    THEN (CHOOSE i \in 1..Len(outs) :
             outs[i] = "nil" /\ \A j \in 1..(i - 1) : outs[j] # "nil") - 1
    ELSE Len(outs)

\* the message bodies that are not well-formed data for the payload type of
\* pump p: not JSON at all, a JSON array, an object whose subject is a number
MalformedFor(p) ==
    {Garbage, JsonArray} \cup (IF p = "email" THEN {SubjectIsNumber} ELSE {})

\* the pumps whose callback is Client.Receive or user.ProcessMessage
CodePumps == {"email", "user"}

\* ------------------------------------------------------------------------
\* Properties
\* ------------------------------------------------------------------------

\* C1 as stated: the executor invokes the operation exactly min(k, maxAttempts)
\* times, k the number of consecutive failures before the first success, and
\* maxAttempts times if the operation never succeeds.
C1_InvocationsMinK ==
    \A p \in Pumps :
        Returned(p) =>
            rs[p].calls = IF Succeeded(rs[p].outs)
                          THEN Min(ConsecutiveFailures(rs[p].outs), rs[p].maxRetries)
                          ELSE rs[p].maxRetries

\* C1 amended: the executor invokes the operation exactly min(k + 1, maxAttempts)
\* times, k the number of consecutive failures before the first success, and
\* maxAttempts times if the operation never succeeds.
C1_InvocationsMinKPlusOne ==
    \A p \in Pumps :
        Returned(p) =>
            rs[p].calls = IF Succeeded(rs[p].outs)
                          THEN Min(ConsecutiveFailures(rs[p].outs) + 1, rs[p].maxRetries)
                          ELSE rs[p].maxRetries

C1_Witness ==
    \E p \in Pumps : Returned(p) /\ rs[p].outs = <<"err", "nil">> /\ rs[p].calls = 2

\* C2: the retry executor returns nil for every sequence of outcomes, also when
\* all maxAttempts attempts failed; the last error is recorded, not returned.
C2_RetryReturnsNil ==
    \A p \in Pumps :
        Returned(p) =>
            /\ rs[p].result = "nil"
            /\ ~Succeeded(rs[p].outs) => rs[p].lastErr = "err"

C2_Witness ==
    \E p \in Pumps :
        Returned(p) /\ rs[p].outs = <<"err", "err", "err">> /\ rs[p].result = "nil"

\* C3: for a message that decodes, the pump Acks exactly when the handler
\* returned no error and Nacks exactly when it returned an error.
C3_AckIffHandlerNil ==
    \A p \in CodePumps :
        (Finished(p) /\ Decode(p, msg[p]).err = "nil") =>
            /\ ack[p] = "ack" <=> herr[p] = "nil"
            /\ ack[p] = "nack" <=> herr[p] = "err"

C3_Witness ==
    \E p \in CodePumps :
        /\ Finished(p) /\ Decode(p, msg[p]).err = "nil"
        /\ herr[p] = "err" /\ ack[p] = "nack"

\* C4: for a message whose bytes are not well-formed data for the payload type,
\* decode returns an error, the pump Nacks at once and no handler is invoked.
C4_MalformedNackedUnhandled ==
    \A p \in CodePumps :
        (msg[p] \in MalformedFor(p) /\ pc[p] # "callback") =>
            /\ Decode(p, msg[p]).err = "err"
            /\ pc[p] = "idle"
            /\ ack[p] = "nack"
            /\ stack[p] = <<>>
            /\ herr[p] = "none"
            /\ sent[p] = {}

C4_Witness ==
    /\ msg["email"] = SubjectIsNumber /\ ack["email"] = "nack"
    /\ msg["user"] = Garbage /\ ack["user"] = "nack"

\* C5: when every delivery attempt fails, the handler returns nil after
\* maxAttempts (3) attempts and the pump Acks; a Nack never follows a delivery
\* attempt.
C5_DeliveryFailureAcked ==
    \A p \in Pumps :
        /\ (Returned(p) /\ ~Succeeded(rs[p].outs)) =>
              /\ rs[p].calls = 3
              /\ pc[p] \in {"handled", "idle"} => herr[p] = "nil"
              /\ pc[p] = "idle" => ack[p] = "ack"
        /\ ack[p] = "nack" => (rs[p].calls = 0 /\ sent[p] = {})

C5_Witness ==
    \A p \in {"email", "verification"} :
        Finished(p) /\ rs[p].outs = <<"err", "err", "err">> /\ ack[p] = "ack"

\* C6 as stated: when the delegated welcome send fails on every attempt, the
\* user-creation handler returns an error and the message is Nacked.
C6_UserFailureNacked ==
    (/\ Finished("user")
     /\ stack["user"] = <<"HandleUserMessage", "HandleWelcomeMessage">>
     /\ rs["user"].outs = <<"err", "err", "err">>) =>
        (herr["user"] = "err" /\ ack["user"] = "nack")

C8_SuccessReturnsAtOnce ==
    \A p \in Pumps :
        LET outs == rs[p].outs
        IN  (Len(outs) > 0 /\ outs[Len(outs)] = "nil") =>
                /\ Returned(p)
                /\ rs[p].result = "nil"
                /\ rs[p].calls = Len(outs)
                /\ rs[p].waits = Len(outs) - 1
                /\ \A i \in 1..(Len(outs) - 1) : outs[i] = "err"

C8_Witness ==
    \E p \in Pumps : Returned(p) /\ rs[p].outs = <<"err", "nil">> /\ rs[p].waits = 1

\* C9: with maxAttempts = 3 and delay = 2 s, an operation that fails twice and
\* then succeeds is invoked 3 times with two waits between, so at least 4 s
\* pass, and the executor returns nil.
C9_FailTwiceThenSucceed ==
    \A p \in Pumps :
        (/\ Returned(p)
         /\ rs[p].maxRetries = 3 /\ rs[p].delay = 2000
         /\ rs[p].outs = <<"err", "err", "nil">>) =>
            /\ rs[p].calls = 3
            /\ rs[p].waits = 2
            /\ rs[p].elapsed >= 4000
            /\ rs[p].result = "nil"

C9_Witness ==
    \E p \in Pumps :
        /\ Returned(p) /\ rs[p].maxRetries = 3 /\ rs[p].delay = 2000
        /\ rs[p].outs = <<"err", "err", "nil">>

\* C10: a message of the regular-email subscription goes to the regular email
\* handler and is rendered with the default template whatever its subject; the
\* welcome handler runs only under the user-creation handler.
C10_RoutedBySubscription ==
    /\ stack["email"] \in {<<>>, <<"HandleEmailMessage">>}
    /\ \A r \in sent["email"] :
          /\ r.html.template = "default"
          /\ r.html.subject = PayloadOf("email")["subject"]
          /\ r.html.body = PayloadOf("email")["body"]
    /\ \A p \in Pumps :
          (\E i \in 1..Len(stack[p]) : stack[p][i] = "HandleWelcomeMessage") =>
              (p = "user" /\ stack[p] = <<"HandleUserMessage", "HandleWelcomeMessage">>)

C10_Witness ==
    /\ Finished("email")
    /\ PayloadOf("email")["subject"] = "Bem-vindo"
    /\ \E r \in sent["email"] : r.html.template = "default" /\ r.subject = "Bem-vindo"
    /\ ack["email"] = "ack"

\* the retry executor of pump p has run its loop to the end: it stopped on a
\* nil result or after maxRetries calls, with one wait between two calls
LoopComplete(r) ==
    /\ r.at = "ret"
    /\ r.calls = Len(r.outs)
    /\ r.calls >= 1
    /\ r.waits = r.calls - 1
    /\ \/ r.outs[r.calls] = "nil"
       \/ r.calls = r.maxRetries

\* C12: a message carries an Ack or a Nack only once its callback is over:
\* if a handler was invoked for it, the handler has returned and the retry
\* executor has finished its attempts and waits; while the handler is
\* running the message is neither acknowledged nor rejected.
C12_AckAfterHandlerReturns ==
    \A p \in Pumps :
        /\ pc[p] \in {"handler", "retry", "handled"} => ack[p] = "none"
        /\ ack[p] # "none" =>
              /\ pc[p] = "idle"
              /\ stack[p] # <<>> => herr[p] # "none" /\ LoopComplete(rs[p])

C12_Witness ==
    \E p \in Pumps :
        /\ ack[p] = "ack"
        /\ rs[p].calls = HandlerMaxRetries
        /\ rs[p].waits = HandlerMaxRetries - 1
        /\ rs[p].outs[HandlerMaxRetries] = "nil"

\* ------------------------------------------------------------------------
\* The worker process: main, run, the three goroutines and errChan
\* ------------------------------------------------------------------------

\* (variant: a channel with room for one error less than there are loops)
ErrChanCap_OneShort == Cardinality(Pumps) - 1

\* errChan := make(chan error, 3)
ErrChanCap == 3

\* the steps of run before the goroutines are started, in program order
StartupSteps ==
    <<"NewClient",
      "EnsureTopic_email", "EnsureSubscription_email",
      "EnsureTopic_verification", "EnsureSubscription_verification",
      "EnsureTopic_user", "EnsureSubscription_user">>

\* the error run wraps and returns when a startup step fails
StartupError(step) == "failed: " \o step

\* the error a goroutine sends when its receive loop returns non-nil
ReceiverError(p) == p \o " message receiver failed"

\* (variant: a failed startup step is logged and run carries on)
StartupStep_IgnoresError(w, ok) ==
    [w EXCEPT !.tried = Append(@, StartupSteps[w.step]),
              !.failed = IF ok THEN @ ELSE @ \cup {StartupSteps[w.step]},
              !.step = @ + 1,
              !.run = IF w.step = Len(StartupSteps) THEN "spawn" ELSE "startup"]

\* one startup step of run: `x, err := step(...)`, `if err != nil { return
\* fmt.Errorf(...) }`, else fall through to the next statement
StartupStep(w, ok) ==
    IF ok
    THEN [w EXCEPT !.tried = Append(@, StartupSteps[w.step]),
                   !.step = @ + 1,
                   !.run = IF w.step = Len(StartupSteps) THEN "spawn" ELSE "startup"]
    ELSE [w EXCEPT !.tried = Append(@, StartupSteps[w.step]),
                   !.failed = @ \cup {StartupSteps[w.step]},
                   !.run = "returned",
                   !.result = StartupError(StartupSteps[w.step])]

\* (variant: the error is dropped, run only waits for the signal)
RunSelect_DoneOnly(w) ==
    IF w.ctxDone THEN {"done"} ELSE {}

\* the cases of run's select that are ready; Go picks any one of them
RunSelect(w) ==
    (IF w.errChan # <<>> THEN {"err"} ELSE {}) \cup
    (IF w.ctxDone THEN {"done"} ELSE {})

\* the messages the worker run is fed: per subscription a well-formed
\* message of its type and an undecodable one
WorkerDocs(p) ==
    {Garbage} \cup
    (CASE p = "email" -> {EmailToJSON("a@x.com", "Report", "Hi")}
       [] p = "verification" -> {VerificationToJSON("a@x.com", "ana", "https://v/1")}
       [] p = "user" -> {UserToJSON("u1", "a@x.com", "Ana")})

\* a handler invocation has started and its callback has not returned
HandlerRunning(p) == pc[p] \in {"handler", "retry", "handled"}

\* run executes its next startup step, which succeeds or fails
Run_Startup ==
    /\ wk.exit = "running"
    /\ wk.run = "startup"
    /\ \E ok \in BOOLEAN : wk' = StartupStep(wk, ok)
    /\ UNCHANGED <<pumpVars, bk, pub, pure>>

\* the three `go func() {...}()` statements, after which run is at its select
Run_StartLoops ==
    /\ wk.exit = "running"
    /\ wk.run = "spawn"
    /\ wk' = [wk EXCEPT !.loop = [p \in Pumps |-> "receiving"], !.run = "select"]
    /\ UNCHANGED <<pumpVars, bk, pub, pure>>

\* SIGINT or SIGTERM arrives: the context of signal.NotifyContext is done
Signal ==
    /\ wk.exit = "running"
    /\ ~wk.ctxDone
    /\ wk' = [wk EXCEPT !.ctxDone = TRUE,
                        !.inflight = {p \in Pumps : pc[p] = "retry" /\ rs[p].at \in {"call", "sleep"}}]
    /\ UNCHANGED <<pumpVars, bk, pub, pure>>

\* the receive call of goroutine p returns a non-nil error
Loop_Fail(p) ==
    /\ wk.exit = "running"
    /\ wk.loop[p] = "receiving"
    /\ pc[p] = "idle"
    /\ wk' = [wk EXCEPT !.loop[p] = "failed"]
    /\ UNCHANGED <<pumpVars, bk, pub, pure>>

\* errChan <- fmt.Errorf("... receiver failed: %w", err), and the goroutine ends
Loop_Send(p) ==
    /\ wk.exit = "running"
    /\ wk.loop[p] = "failed"
    /\ Len(wk.errChan) < ErrChanCap
    /\ wk' = [wk EXCEPT !.loop[p] = "reported",
                        !.errChan = Append(@, ReceiverError(p)),
                        !.firstErr = IF @ = "none" THEN ReceiverError(p) ELSE @]
    /\ UNCHANGED <<pumpVars, bk, pub, pure>>

\* the receive call of goroutine p returns nil once the context is done
Loop_Stop(p) ==
    /\ wk.exit = "running"
    /\ wk.loop[p] = "receiving"
    /\ wk.ctxDone
    /\ pc[p] = "idle"
    /\ wk' = [wk EXCEPT !.loop[p] = "stopped"]
    /\ UNCHANGED <<pumpVars, bk, pub, pure>>

\* run's select takes one of its ready cases and run returns
Run_Select ==
    /\ wk.exit = "running"
    /\ wk.run = "select"
    /\ \E c \in RunSelect(wk) :
          wk' = [wk EXCEPT !.run = "returned",
                           !.sigAtSelect = wk.ctxDone,
                           !.errAtSelect = wk.errChan # <<>>,
                           !.result = IF c = "err" THEN Head(wk.errChan) ELSE "nil",
                           !.errChan = IF c = "err" THEN Tail(@) ELSE @]
    /\ UNCHANGED <<pumpVars, bk, pub, pure>>

\* main returns or calls os.Exit(1): the process and its goroutines end
Main_Exit ==
    /\ wk.exit = "running"
    /\ wk.run = "returned"
    /\ wk' = [wk EXCEPT !.exit = IF wk.result = "nil" THEN "0" ELSE "1"]
    /\ UNCHANGED <<pumpVars, bk, pub, pure>>

\* goroutine p pulls a message; a done context stops the pulling
Loop_Deliver(p) ==
    /\ wk.exit = "running"
    /\ wk.loop[p] = "receiving"
    /\ ~wk.ctxDone
    /\ DeliverFrom(p, WorkerDocs(p))
    /\ UNCHANGED <<wk, bk, pub, pure>>

\* a step of the callback of goroutine p, while the process lives
Loop_Callback(p) ==
    /\ wk.exit = "running"
    /\ wk.loop[p] = "receiving"
    /\ \/ Callback_Decode(p)
       \/ Handler_Enter(p)
       \/ Retry_Call(p)
       \/ Retry_Wait(p)
       \/ Handler_Return(p)
       \/ Callback_Ack(p)
    /\ UNCHANGED <<wk, bk, pub, pure>>

NextWorker ==
    \/ Run_Startup
    \/ Run_StartLoops
    \/ Signal
    \/ Run_Select
    \/ Main_Exit
    \/ \E p \in Pumps :
          \/ Loop_Deliver(p)
          \/ Loop_Callback(p)
          \/ Loop_Fail(p)
          \/ Loop_Send(p)
          \/ Loop_Stop(p)

SpecWorker == Init /\ [][NextWorker]_vars

\* the process has ended
Exited == wk.exit # "running"

\* C20 as stated: when the process ends after the shutdown signal, no handler
\* invocation is in flight and every message whose handler had started has
\* been acked or nacked.
C20_ShutdownWaitsForHandlers ==
    (Exited /\ wk.ctxDone /\ wk.result = "nil") =>
        \A p \in Pumps :
            /\ ~HandlerRunning(p)
            /\ stack[p] # <<>> => ack[p] # "none"

\* run got past its startup steps and has returned from its select
ReturnedFromSelect == wk.run = "returned" /\ wk.step > Len(StartupSteps)

\* the elements of a sequence
Range(q) == {q[i] : i \in 1..Len(q)}

\* C11 as stated: once a receive loop's error is queued on errChan when run's
\* select decides, run returns that error and the process exits non-zero.
C11_LoopErrorReturned ==
    (ReturnedFromSelect /\ wk.errAtSelect) =>
        /\ wk.result = wk.firstErr
        /\ Exited => wk.exit = "1"

\* C11 amended: a receive loop's error is always delivered on errChan (the
\* send never blocks); run returns the first delivered error, and the process
\* exits with status 1, when the shutdown signal is not pending at run's
\* select; when both are pending run returns either that error or nil.
C11_LoopErrorReturnedUnlessSignal ==
    /\ Len(wk.errChan) <= ErrChanCap
    /\ \A p \in Pumps :
          /\ wk.loop[p] = "failed" => Len(wk.errChan) < ErrChanCap
          /\ wk.loop[p] = "reported" =>
                ReceiverError(p) \in Range(wk.errChan) \cup {wk.result}
    /\ (wk.run = "select" /\ wk.errChan # <<>>) => "err" \in RunSelect(wk)
    /\ (ReturnedFromSelect /\ ~wk.sigAtSelect) =>
          /\ wk.errAtSelect
          /\ wk.result = wk.firstErr
          /\ wk.result # "nil"
    /\ (ReturnedFromSelect /\ wk.errAtSelect) => wk.result \in {wk.firstErr, "nil"}
    /\ (Exited /\ wk.result # "nil") => wk.exit = "1"

C11_Witness ==
    /\ Exited
    /\ wk.exit = "1"
    /\ ~wk.sigAtSelect
    /\ wk.result = ReceiverError("verification")
    /\ wk.loop["verification"] = "reported"

\* C30 as stated: when the process ends after the shutdown signal and no
\* receive loop failed, every receive loop has stopped, run returned nil and
\* the exit status is zero.
C30_CleanShutdownStopsLoops ==
    (/\ Exited
     /\ wk.ctxDone
     /\ ReturnedFromSelect
     /\ \A p \in Pumps : wk.loop[p] \notin {"failed", "reported"}) =>
        /\ wk.result = "nil"
        /\ wk.exit = "0"
        /\ \A p \in Pumps : wk.loop[p] = "stopped"

\* a startup step failed
StartupFailed == wk.failed # {}

\* C17: a failed startup step makes run return its error at once: the step
\* is not tried again, no later step is tried, no receive loop is started,
\* and the process exits with status 1; a receive loop is started only after
\* all seven steps were tried once and succeeded.
C17_StartupFailureIsFatal ==
    /\ wk.tried = SubSeq(StartupSteps, 1, Len(wk.tried))
    /\ (\E p \in Pumps : wk.loop[p] # "notStarted") =>
          wk.tried = StartupSteps /\ ~StartupFailed
    /\ StartupFailed =>
          /\ wk.run = "returned"
          /\ wk.failed = {wk.tried[Len(wk.tried)]}
          /\ wk.result = StartupError(wk.tried[Len(wk.tried)])
          /\ \A p \in Pumps : wk.loop[p] = "notStarted" /\ pc[p] = "idle"
          /\ delivered = 0
          /\ Exited => wk.exit = "1"

C17_Witness ==
    /\ Exited
    /\ wk.exit = "1"
    /\ wk.failed = {"EnsureSubscription_verification"}
    /\ Len(wk.tried) = 5

\* C19: a retry executor that was in flight when the shutdown signal was
\* raised returns only with its loop complete: it stopped on a success or
\* made all maxRetries calls, with every wait in between, and returned nil.
C19_RetryIgnoresCancellation ==
    \A p \in wk.inflight :
        Returned(p) => LoopComplete(rs[p]) /\ rs[p].result = "nil"

C19_Witness ==
    \E p \in wk.inflight :
        /\ wk.ctxDone
        /\ Returned(p)
        /\ rs[p].calls = HandlerMaxRetries
        /\ rs[p].waits = HandlerMaxRetries - 1
        /\ rs[p].outs[HandlerMaxRetries] = "err"

\* ------------------------------------------------------------------------
\* EnsureTopic / EnsureSubscription against the broker
\* ------------------------------------------------------------------------

\* the broker answers a request or fails it
BrokerOutcomes == {"ok", "unavailable"}

\* (variant: create without looking at the result of Exists)
Ensure_AfterExists_AlwaysCreate(exists, err) ==
    IF err # "ok" THEN "fail" ELSE "create"

\* exists, err := x.Exists(ctx); if err != nil { return nil, ... };
\* if !exists { create } ; return x, nil
Ensure_AfterExists(exists, err) ==
    IF err # "ok" THEN "fail"
    ELSE IF ~exists THEN "create"
    ELSE "return"

\* the call of c returns: its outcome is appended to the log
Ensure_Finish(b, c, result, created) ==
    [b EXCEPT !.call[c] = NoCall,
              !.log = Append(@, [caller |-> c,
                                 res |-> b.call[c].res,
                                 result |-> result,
                                 handle |-> IF result = "ok" THEN b.call[c].res ELSE "nil",
                                 created |-> created,
                                 existed |-> b.call[c].existed,
                                 overlapped |-> b.call[c].overlapped])]

\* the resource was created before any of the processes started
Provisioned(r) ==
    /\ bk.started = 0
    /\ r \notin bk.exists
    /\ r = "subscription" => "topic" \in bk.exists
    /\ bk' = [bk EXCEPT !.exists = @ \cup {r}, !.pre = @ \cup {r}]
    /\ UNCHANGED <<pumpVars, wk, pub, pure>>

\* process c enters EnsureTopic / EnsureSubscription (the latter with the
\* topic handle it got before)
Ensure_Call(c, r) ==
    /\ bk.call[c].at = "idle"
    /\ bk.started < MaxCalls
    /\ r = "subscription" => "topic" \in bk.exists
    /\ LET busy == {d \in Callers \ {c} : bk.call[d].at # "idle" /\ bk.call[d].res = r}
       IN bk' = [bk EXCEPT
                   !.started = @ + 1,
                   !.call = [d \in Callers |->
                               IF d = c
                               THEN [at |-> "exists", res |-> r,
                                     existed |-> r \in bk.exists,
                                     overlapped |-> busy # {}]
                               ELSE IF d \in busy
                               THEN [bk.call[d] EXCEPT !.overlapped = TRUE]
                               ELSE bk.call[d]]]
    /\ UNCHANGED <<pumpVars, wk, pub, pure>>

\* x.Exists(ctx) answers and the call branches on it
Ensure_Exists(c) ==
    /\ bk.call[c].at = "exists"
    /\ \E o \in BrokerOutcomes :
          LET todo == Ensure_AfterExists(bk.call[c].res \in bk.exists, o)
          IN bk' = CASE todo = "fail" -> Ensure_Finish(bk, c, o, FALSE)
                     [] todo = "return" -> Ensure_Finish(bk, c, "ok", FALSE)
                     [] todo = "create" -> [bk EXCEPT !.call[c].at = "create"]
    /\ UNCHANGED <<pumpVars, wk, pub, pure>>

\* c.client.CreateTopic / CreateSubscription answers
Ensure_Create(c) ==
    /\ bk.call[c].at = "create"
    /\ \E o \in BrokerOutcomes :
          LET r == bk.call[c].res
              res == IF o # "ok" THEN o
                     ELSE IF r \in bk.exists THEN "AlreadyExists" ELSE "ok"
          IN bk' = IF res = "ok"
                   THEN Ensure_Finish([bk EXCEPT !.exists = @ \cup {r},
                                                 !.creates[r] = @ + 1], c, "ok", TRUE)
                   ELSE Ensure_Finish(bk, c, res, FALSE)
    /\ UNCHANGED <<pumpVars, wk, pub, pure>>

NextEnsure ==
    \/ \E r \in Resources : Provisioned(r)
    \/ \E c \in Callers, r \in Resources : Ensure_Call(c, r)
    \/ \E c \in Callers : Ensure_Exists(c)
    \/ \E c \in Callers : Ensure_Create(c)

SpecEnsure == Init /\ [][NextEnsure]_vars

\* no call for r ran while another call for r was running
Sequential(r) ==
    /\ \A i \in 1..Len(bk.log) : bk.log[i].res = r => ~bk.log[i].overlapped
    /\ \A c \in Callers : bk.call[c].res = r => ~bk.call[c].overlapped

\* how often r was created, before and by the calls
TimesCreated(r) == bk.creates[r] + (IF r \in bk.pre THEN 1 ELSE 0)

\* C16: a call that did not overlap another call for its name, and that the
\* broker answered, succeeds with the handle of its name; it creates the
\* resource exactly when the resource did not exist; a sequence of
\* non-overlapping calls for a name leaves the resource created exactly once.
C16_EnsureIdempotent ==
    /\ \A i \in 1..Len(bk.log) :
          (~bk.log[i].overlapped /\ bk.log[i].result # "unavailable") =>
              /\ bk.log[i].result = "ok"
              /\ bk.log[i].handle = bk.log[i].res
              /\ bk.log[i].created = ~bk.log[i].existed
    /\ \A r \in Resources :
          Sequential(r) =>
              /\ TimesCreated(r) <= 1
              /\ (\E i \in 1..Len(bk.log) : bk.log[i].res = r /\ bk.log[i].result = "ok") =>
                    r \in bk.exists /\ TimesCreated(r) = 1

C16_Witness ==
    \E i, j \in 1..Len(bk.log) :
        /\ i < j
        /\ bk.log[i].res = bk.log[j].res
        /\ Sequential(bk.log[i].res)
        /\ bk.log[i].result = "ok" /\ bk.log[i].created
        /\ bk.log[j].result = "ok" /\ bk.log[j].existed /\ ~bk.log[j].created

\* C29 as stated: calls of EnsureTopic by the two processes that overlap, for
\* a topic absent when they started, both succeed when the broker answers
\* them, and the topic is created once.
C29_ConcurrentEnsureBothSucceed ==
    /\ \A i \in 1..Len(bk.log) :
          (/\ bk.log[i].res = "topic"
           /\ bk.log[i].overlapped
           /\ ~bk.log[i].existed
           /\ bk.log[i].result # "unavailable") =>
              bk.log[i].result = "ok" /\ bk.log[i].handle = "topic"
    /\ TimesCreated("topic") <= 1

\* ------------------------------------------------------------------------
\* The publish side: Validate, ToJSON, Publish
\* ------------------------------------------------------------------------

\* the payloads the HTTP handlers decode from request bodies
EmailPayloads ==
    [to : {"", "a@x.com"}, subject : {"", "Report"}, body : {"", "Hi"}]

VerificationPayloads ==
    [to : {"", "a@x.com"}, username : {"", "ana"}, token : {"", "tok"},
     code : {"", "123456"}, verify_url : {"", "https://v/1"}]

UserPayloads ==
    [id : {"", "u1"}, email : {"", "a@x.com"}, name : {"", "Ana"}, username : {"", "ana"}]

\* EmailPayload.Validate
EmailPayload_Validate(e) ==
    IF e.to = "" THEN "ErrMissingRecipient"
    ELSE IF e.subject = "" THEN "ErrMissingSubject"
    ELSE IF e.body = "" THEN "ErrMissingBody"
    ELSE "nil"

\* (variant: code and verify_url are both required)
VerificationEmailPayload_Validate_BothRequired(v) ==
    IF v.to = "" THEN "ErrMissingRecipient"
    ELSE IF v.username = "" THEN "username is required"
    ELSE IF v.code = "" \/ v.verify_url = ""
         THEN "either verification code or verify_url is required"
    ELSE "nil"

\* VerificationEmailPayload.Validate
VerificationEmailPayload_Validate(v) ==
    IF v.to = "" THEN "ErrMissingRecipient"
    ELSE IF v.username = "" THEN "username is required"
    ELSE IF v.code = "" /\ v.verify_url = ""
         THEN "either verification code or verify_url is required"
    ELSE "nil"

\* UserPayload.Validate
UserPayload_Validate(u) ==
    IF u.id = "" THEN "missing user ID"
    ELSE IF u.email = "" THEN "missing user email"
    ELSE IF u.name = "" THEN "missing user name"
    ELSE "nil"

\* json.Marshal of a struct of strings: every field under its tag, the
\* omitempty ones only when non-empty
MarshalStruct(rec, always, omitempty) ==
    JsonObject([k \in always \cup {o \in omitempty : rec[o] # ""} |-> JStr(rec[k])])

EmailPayload_ToJSON(e) == MarshalStruct(e, {"to", "subject", "body"}, {})

VerificationEmailPayload_ToJSON(v) ==
    MarshalStruct(v, {"to", "username"}, {"token", "code", "verify_url"})

UserPayload_ToJSON(u) == MarshalStruct(u, {"id", "email", "name"}, {"username"})

NoData == [wf |-> FALSE, top |-> "none", fields |-> NoFields]

\* the tail every publish operation shares: Publish, result.Get
PublishData(data, brokerOk, failure) ==
    IF brokerOk THEN [err |-> "nil", data |-> data]
    ELSE [err |-> failure, data |-> NoData]

\* (variant: the payload goes out unvalidated)
Service_SendEmail_NoValidate(payload, brokerOk) ==
    PublishData(EmailPayload_ToJSON(payload), brokerOk, "failed to publish message")

\* email Service.SendEmail
Service_SendEmail(payload, brokerOk) ==
    IF EmailPayload_Validate(payload) # "nil"
    THEN [err |-> "invalid payload", data |-> NoData]
    ELSE PublishData(EmailPayload_ToJSON(payload), brokerOk, "failed to publish message")

\* email Service.PublishVerificationEmail
Service_PublishVerificationEmail(payload, topicConfigured, brokerOk) ==
    IF ~topicConfigured
    THEN [err |-> "verification topic not configured", data |-> NoData]
    ELSE IF VerificationEmailPayload_Validate(payload) # "nil"
    THEN [err |-> "invalid payload", data |-> NoData]
    ELSE PublishData(VerificationEmailPayload_ToJSON(payload), brokerOk,
                     "failed to publish verification message")

\* the HTTP handler SendVerificationEmail: 400 on an invalid payload, else
\* the service call
Handler_SendVerificationEmail(payload, topicConfigured, brokerOk) ==
    IF VerificationEmailPayload_Validate(payload) # "nil"
    THEN [err |-> "400", data |-> NoData]
    ELSE Service_PublishVerificationEmail(payload, topicConfigured, brokerOk)

\* user Service.CreateUser
Service_CreateUser(payload, brokerOk) ==
    IF UserPayload_Validate(payload) # "nil"
    THEN [err |-> "invalid payload", data |-> NoData]
    ELSE PublishData(UserPayload_ToJSON(payload), brokerOk, "failed to publish message")

\* the effect of one publish operation on the topics
Published(b, op, t, payload, valid, res) ==
    [b EXCEPT !.calls = @ + 1,
              !.oks = IF res.err = "nil" THEN @ + 1 ELSE @,
              !.topic[t] = IF res.data # NoData
                           THEN Append(@, [payload |-> payload, data |-> res.data])
                           ELSE @,
              !.last = [op |-> op, valid |-> valid, err |-> res.err,
                        published |-> res.data # NoData]]

Publish_Email ==
    /\ pub.calls < MaxPublishes
    /\ \E e \in EmailPayloads, brokerOk \in BOOLEAN :
          pub' = Published(pub, "SendEmail", "email", e,
                           EmailPayload_Validate(e) = "nil",
                           Service_SendEmail(e, brokerOk))
    /\ UNCHANGED <<pumpVars, wk, bk, pure>>

Publish_Verification ==
    /\ pub.calls < MaxPublishes
    /\ \E v \in VerificationPayloads, topicConfigured \in BOOLEAN, brokerOk \in BOOLEAN :
          \/ pub' = Published(pub, "PublishVerificationEmail", "verification", v,
                              VerificationEmailPayload_Validate(v) = "nil",
                              Service_PublishVerificationEmail(v, topicConfigured, brokerOk))
          \/ pub' = Published(pub, "SendVerificationEmail", "verification", v,
                              VerificationEmailPayload_Validate(v) = "nil",
                              Handler_SendVerificationEmail(v, topicConfigured, brokerOk))
    /\ UNCHANGED <<pumpVars, wk, bk, pure>>

Publish_User ==
    /\ pub.calls < MaxPublishes
    /\ \E u \in UserPayloads, brokerOk \in BOOLEAN :
          pub' = Published(pub, "CreateUser", "user", u,
                           UserPayload_Validate(u) = "nil",
                           Service_CreateUser(u, brokerOk))
    /\ UNCHANGED <<pumpVars, wk, bk, pure>>

NextPublish ==
    \/ Publish_Email
    \/ Publish_Verification
    \/ Publish_User

SpecPublish == Init /\ [][NextPublish]_vars

\* Validate of the payload type of topic t
ValidateFor(t, payload) ==
    CASE t = "email" -> EmailPayload_Validate(payload)
      [] t = "verification" -> VerificationEmailPayload_Validate(payload)
      [] t = "user" -> UserPayload_Validate(payload)

\* the number of messages on all topics
TotalPublished ==
    Len(pub.topic["email"]) + Len(pub.topic["verification"]) + Len(pub.topic["user"])

\* C13: every message on a topic is the encoding of a payload that passes
\* Validate; a publish operation called with an invalid payload returns an
\* error and leaves the topics as they were (the messages on the topics are
\* exactly those of the calls that returned nil).
C13_PublishOnlyIfValid ==
    /\ \A t \in Pumps : \A i \in 1..Len(pub.topic[t]) :
          ValidateFor(t, pub.topic[t][i].payload) = "nil"
    /\ (pub.last.op # "none" /\ ~pub.last.valid) =>
          pub.last.err \notin {"nil", "none"} /\ ~pub.last.published
    /\ pub.last.published <=> pub.last.err = "nil"
    /\ TotalPublished = pub.oks

C13_Witness ==
    /\ pub.last.op = "CreateUser"
    /\ ~pub.last.valid
    /\ pub.last.err = "invalid payload"
    /\ Len(pub.topic["email"]) = 1
    /\ TotalPublished = 1

\* ------------------------------------------------------------------------
\* Text as sequences of characters: the bytes of ToJSON / FromJSON
\* ------------------------------------------------------------------------

\* the texts of at most n characters over the alphabet a
RECURSIVE TextsUpTo(_, _)
TextsUpTo(a, n) ==
    IF n = 0 THEN {<<>>}
    ELSE LET shorter == TextsUpTo(a, n - 1)
         IN shorter \cup {Append(t, c) : t \in shorter, c \in a}

\* a letter, a letter that names an escape, the quote, the backslash, a
\* character json.Marshal escapes for HTML, a control character and a
\* non-ASCII character
PayloadAlphabet == {"a", "n", "\"", "\\", "<", "\n", "é"}

\* (variant: characters are written as they are)
EncodeChar_NoEscape(c) == <<c>>

\* json.Marshal of one character of a string
EncodeChar(c) ==
    CASE c = "\"" -> <<"\\", "\"">>
      [] c = "\\" -> <<"\\", "\\">>
      [] c = "\n" -> <<"\\", "n">>
      [] c = "<" -> <<"\\", "u", "0", "0", "3", "c">>
      [] OTHER -> <<c>>

RECURSIVE EncodeChars(_)
EncodeChars(t) ==
    IF t = <<>> THEN <<>> ELSE EncodeChar(Head(t)) \o EncodeChars(Tail(t))

\* json.Marshal of a string: quoted and escaped
EncodeString(t) == <<"\"">> \o EncodeChars(t) \o <<"\"">>

\* the struct tags of EmailPayload, as text
TagTo == <<"t", "o">>
TagSubject == <<"s", "u", "b", "j", "e", "c", "t">>
TagBody == <<"b", "o", "d", "y">>

\* EmailPayload.ToJSON: json.Marshal(e), the bytes
ToJSON(e) ==
    <<"{">> \o EncodeString(TagTo) \o <<":">> \o EncodeString(e.to) \o
    <<",">> \o EncodeString(TagSubject) \o <<":">> \o EncodeString(e.subject) \o
    <<",">> \o EncodeString(TagBody) \o <<":">> \o EncodeString(e.body) \o <<"}">>

ScanFailed == [ok |-> FALSE, val |-> <<>>, next |-> 0]

\* the JSON decoder reading a string whose opening quote precedes b[i]
RECURSIVE ScanString(_, _, _)
ScanString(b, i, acc) ==
    IF i > Len(b) THEN ScanFailed
    ELSE IF b[i] = "\"" THEN [ok |-> TRUE, val |-> acc, next |-> i + 1]
    ELSE IF b[i] = "\n" THEN ScanFailed
    ELSE IF b[i] = "\\"
    THEN IF i + 1 > Len(b) THEN ScanFailed
         ELSE CASE b[i + 1] = "\"" -> ScanString(b, i + 2, Append(acc, "\""))
                [] b[i + 1] = "\\" -> ScanString(b, i + 2, Append(acc, "\\"))
                [] b[i + 1] = "n" -> ScanString(b, i + 2, Append(acc, "\n"))
                [] b[i + 1] = "u" ->
                     IF i + 5 <= Len(b) /\ SubSeq(b, i + 2, i + 5) = <<"0", "0", "3", "c">>
                     THEN ScanString(b, i + 6, Append(acc, "<"))
                     ELSE ScanFailed
                [] OTHER -> ScanFailed
    ELSE ScanString(b, i + 1, Append(acc, b[i]))

NoEmail == [to |-> <<>>, subject |-> <<>>, body |-> <<>>]

\* json.Unmarshal storing the value of a key in the field with that tag;
\* other keys are skipped
SetField(e, key, val) ==
    IF key = TagTo THEN [e EXCEPT !.to = val]
    ELSE IF key = TagSubject THEN [e EXCEPT !.subject = val]
    ELSE IF key = TagBody THEN [e EXCEPT !.body = val]
    ELSE e

\* the decoder reading the members of an object from b[i] on
RECURSIVE ScanMembers(_, _, _)
ScanMembers(b, i, e) ==
    IF i > Len(b) \/ b[i] # "\"" THEN [err |-> "err", payload |-> NoEmail]
    ELSE LET k == ScanString(b, i + 1, <<>>)
         IN IF ~k.ok \/ k.next + 1 > Len(b) \/ b[k.next] # ":" \/ b[k.next + 1] # "\""
            THEN [err |-> "err", payload |-> NoEmail]
            ELSE LET v == ScanString(b, k.next + 2, <<>>)
                 IN IF ~v.ok \/ v.next > Len(b) THEN [err |-> "err", payload |-> NoEmail]
                    ELSE IF b[v.next] = ","
                    THEN ScanMembers(b, v.next + 1, SetField(e, k.val, v.val))
                    ELSE IF b[v.next] = "}" /\ v.next = Len(b)
                    THEN [err |-> "nil", payload |-> SetField(e, k.val, v.val)]
                    ELSE [err |-> "err", payload |-> NoEmail]

\* FromJSON: json.Unmarshal(data, &payload) of an object of string members
FromJSON(b) ==
    IF Len(b) < 2 \/ b[1] # "{" THEN [err |-> "err", payload |-> NoEmail]
    ELSE IF b = <<"{", "}">> THEN [err |-> "nil", payload |-> NoEmail]
    ELSE ScanMembers(b, 2, NoEmail)

\* the payloads given to ToJSON: valid UTF-8 text, since every payload of
\* the program is decoded from JSON or built from decoded fields
TextPayloads ==
    [to : {<<"a">>, <<>>},
     subject : TextsUpTo(PayloadAlphabet, MaxStrLen - 1),
     body : TextsUpTo(PayloadAlphabet, MaxStrLen)]

\* ------------------------------------------------------------------------
\* IsWelcomeSubject
\* ------------------------------------------------------------------------

UpperCase == <<"A", "B", "C", "D", "E", "F", "G", "H", "I", "J", "K", "L", "M", "N", "O", "P", "Q", "R", "S", "T", "U", "V", "W", "X", "Y", "Z">>
LowerCase == <<"a", "b", "c", "d", "e", "f", "g", "h", "i", "j", "k", "l", "m", "n", "o", "p", "q", "r", "s", "t", "u", "v", "w", "x", "y", "z">>

\* strings.ToLower, on the characters of the subjects below
ToLowerChar(c) ==
    IF \E i \in 1..Len(UpperCase) : UpperCase[i] = c
    THEN LowerCase[CHOOSE i \in 1..Len(UpperCase) : UpperCase[i] = c]
    ELSE c

ToLower(t) == [i \in 1..Len(t) |-> ToLowerChar(t[i])]

\* strings.Contains
Contains(t, sub) ==
    \E i \in 0..(Len(t) - Len(sub)) : SubSeq(t, i + 1, i + Len(sub)) = sub

\* welcomePatterns of utils.go
WelcomePatterns ==
    { <<"b", "e", "m", "-", "v", "i", "n", "d", "o">>,
      <<"b", "e", "m", "-", "v", "i", "n", "d", "a">>,
      <<"b", "o", "a", "s", "-", "v", "i", "n", "d", "a", "s">>,
      <<"w", "e", "l", "c", "o", "m", "e">>,
      <<"w", "e", "l", "c", "o", "m", "e", " ", "t", "o">>,
      <<"s", "e", "j", "a", " ", "b", "e", "m", "-", "v", "i", "n", "d", "o">>,
      <<"s", "e", "j", "a", " ", "b", "e", "m", "-", "v", "i", "n", "d", "a">> }

\* IsWelcomeSubject of internal/email/utils.go
IsWelcomeSubject(subject) ==
    \E pattern \in WelcomePatterns : Contains(ToLower(subject), pattern)

\* IsWelcomeSubject of internal/email/retry.go
IsWelcomeSubject_Retry(subject) ==
    \/ Contains(ToLower(subject), <<"b", "e", "m", "-", "v", "i", "n", "d", "o">>)
    \/ Contains(ToLower(subject), <<"w", "e", "l", "c", "o", "m", "e">>)

\* subjects: those of TestIsWelcomeSubject, other spellings and near misses
SubjectCores ==
    { <<"B", "e", "m", "-", "v", "i", "n", "d", "o">>,
      <<"B", "e", "m", "-", "v", "i", "n", "d", "a", " ", "a", "o", " ", "s", "i", "s", "t", "e", "m", "a">>,
      <<"E", "m", "a", "i", "l", " ", "d", "e", " ", "b", "o", "a", "s", "-", "v", "i", "n", "d", "a", "s">>,
      <<"W", "e", "l", "c", "o", "m", "e", " ", "t", "o", " ", "N", "o", "r", "t", "h", "F", "i">>,
      <<"B", "E", "M", "-", "V", "I", "N", "D", "O">>,
      <<"S", "e", "j", "a", " ", "b", "e", "m", "-", "v", "i", "n", "d", "a", "!">>,
      <<"w", "E", "L", "C", "O", "M", "E">>,
      <<"b", "e", "m", "-", "v", "i", "n", "d">>,
      <<"b", "e", "m", "v", "i", "n", "d", "o">>,
      <<"b", "o", "a", "s", " ", "v", "i", "n", "d", "a", "s">>,
      <<"w", "e", "l", "c", "o", "m">>,
      <<"B", "e", "m", " ", "v", "i", "n", "d", "a">>,
      <<"R", "e", "g", "u", "l", "a", "r", " ", "e", "m", "a", "i", "l", " ", "s", "u", "b", "j", "e", "c", "t">>,
      <<"P", "a", "s", "s", "w", "o", "r", "d", " ", "r", "e", "s", "e", "t", " ", "e", "m", "a", "i", "l">>,
      <<"V", "e", "r", "i", "f", "i", "c", "a", "t", "i", "o", "n", " ", "e", "m", "a", "i", "l">>,
      <<>> }

Subjects ==
    {pre \o core \o post : pre \in TextsUpTo({"x", " "}, MaxPad),
                           core \in SubjectCores,
                           post \in TextsUpTo({"x", "!"}, MaxPad)}

\* ------------------------------------------------------------------------
\* Pure functions applied to inputs
\* ------------------------------------------------------------------------

Apply_Validate ==
    /\ pure.fn = "none"
    /\ \E v \in VerificationPayloads :
          pure' = [fn |-> "Validate", arg |-> v,
                   out |-> VerificationEmailPayload_Validate(v)]
    /\ UNCHANGED <<pumpVars, wk, bk, pub>>

Apply_RoundTrip ==
    /\ pure.fn = "none"
    /\ \E e \in TextPayloads :
          pure' = [fn |-> "RoundTrip", arg |-> e, out |-> FromJSON(ToJSON(e))]
    /\ UNCHANGED <<pumpVars, wk, bk, pub>>

Apply_IsWelcomeSubject ==
    /\ pure.fn = "none"
    /\ \E subject \in Subjects :
          pure' = [fn |-> "IsWelcomeSubject", arg |-> subject,
                   out |-> [utils |-> IsWelcomeSubject(subject),
                            retry |-> IsWelcomeSubject_Retry(subject)]]
    /\ UNCHANGED <<pumpVars, wk, bk, pub>>

\* C14: Validate of a verification payload fails whenever code and
\* verify_url are both empty, whatever the other fields, and succeeds
\* whenever to and username are non-empty and code or verify_url is.
C14_CodeOrUrlRequired ==
    pure.fn = "Validate" =>
        /\ (pure.arg.code = "" /\ pure.arg.verify_url = "") => pure.out # "nil"
        /\ (/\ pure.arg.to # "" /\ pure.arg.username # ""
            /\ (pure.arg.code # "" \/ pure.arg.verify_url # "")) => pure.out = "nil"

C14_Witness ==
    /\ pure.fn = "Validate"
    /\ pure.arg.to # "" /\ pure.arg.username # ""
    /\ pure.arg.code = "" /\ pure.arg.verify_url = ""
    /\ pure.out = "either verification code or verify_url is required"

\* C15: for an EmailPayload with non-empty to, subject and body,
\* FromJSON(ToJSON(p)) succeeds and gives back p.
C15_RoundTrip ==
    (/\ pure.fn = "RoundTrip"
     /\ pure.arg.to # <<>> /\ pure.arg.subject # <<>> /\ pure.arg.body # <<>>) =>
        pure.out = [err |-> "nil", payload |-> pure.arg]

C15_Witness ==
    /\ pure.fn = "RoundTrip"
    /\ pure.arg.to # <<>>
    /\ pure.arg.subject = <<"<">>
    /\ pure.arg.body = <<"\\", "\"">>
    /\ pure.out.err = "nil"
    /\ pure.out.payload = pure.arg

\* the welcome patterns of C18
ClaimedPatterns ==
    { <<"b", "e", "m", "-", "v", "i", "n", "d", "o">>,
      <<"b", "e", "m", "-", "v", "i", "n", "d", "a">>,
      <<"b", "o", "a", "s", "-", "v", "i", "n", "d", "a", "s">>,
      <<"w", "e", "l", "c", "o", "m", "e">> }

\* t has sub at offset i when upper and lower case are not told apart
MatchesAt(t, sub, i) ==
    /\ i + Len(sub) <= Len(t)
    /\ \A j \in 1..Len(sub) : ToLowerChar(t[i + j]) = ToLowerChar(sub[j])

ContainsWelcomePattern(t) ==
    \E sub \in ClaimedPatterns : \E i \in 0..Len(t) : MatchesAt(t, sub, i)

\* C18 as stated: IsWelcomeSubject, in utils.go and in retry.go, is true
\* exactly for the subjects that contain, in any case, one of bem-vindo,
\* bem-vinda, boas-vindas, welcome.
C18_WelcomeIffPattern ==
    pure.fn = "IsWelcomeSubject" =>
        /\ pure.out.utils = ContainsWelcomePattern(pure.arg)
        /\ pure.out.retry = ContainsWelcomePattern(pure.arg)

\* ------------------------------------------------------------------------
\* Properties of the callbacks and handlers
\* ------------------------------------------------------------------------

\* the callback of pump p returns in this step
CallbackReturns(p) == pc[p] # "idle" /\ pc'[p] = "idle"

\* C21: the callback of Client.Receive and of ProcessMessage decides once
\* per message: when it returns the message has gone from undecided to
\* Ack or Nack in that very step, a returned callback always left a
\* decision, and a decision is never changed or withdrawn afterwards (only
\* the next delivery starts undecided again).
C21_ExactlyOneDecision ==
    /\ [](\A p \in CodePumps : (pc[p] = "idle" /\ msg[p] # NoMsg) => ack[p] # "none")
    /\ [][\A p \in CodePumps :
            /\ CallbackReturns(p) => ack[p] = "none" /\ ack'[p] \in {"ack", "nack"}
            /\ ack'[p] # ack[p] => ack[p] = "none" \/ pc'[p] = "callback"]_vars

C21_Witness ==
    /\ Finished("email") /\ ack["email"] = "nack" /\ stack["email"] = <<>>
    /\ Finished("user") /\ ack["user"] = "ack" /\ stack["user"] # <<>>

\* C22: every handler of EmailQueueHandler returns nil, whatever the
\* deliveries did (the retry executor under it returns nil too), so a message
\* is Nacked only by the decode branch of the callback, with no handler
\* invoked.
C22_HandlersNeverFail ==
    /\ \A p \in Pumps :
          /\ herr[p] \in {"none", "nil"}
          /\ Returned(p) => rs[p].result = "nil"
    /\ \A p \in CodePumps :
          ack[p] = "nack" => Decode(p, msg[p]).err # "nil" /\ stack[p] = <<>>

C22_Witness ==
    /\ Finished("verification")
    /\ stack["verification"] = <<"HandleVerificationMessage">>
    /\ rs["verification"].outs = <<"err", "err", "err">>
    /\ herr["verification"] = "nil"
    /\ Finished("email") /\ ack["email"] = "nack" /\ msg["email"] = JsonArray

\* the payload of pump p breaks the invariants Validate checks at publish
InvalidPayload(p) ==
    CASE p = "email" -> EmailPayload_Validate(PayloadOf(p)) # "nil"
      [] p = "verification" -> VerificationEmailPayload_Validate(PayloadOf(p)) # "nil"
      [] p = "user" -> UserPayload_Validate(PayloadOf(p)) # "nil"

\* C24: a message that decodes is handed to the handler whether or not its
\* payload would pass Validate: once the callback has returned, the handler
\* was invoked, made at least one delivery call with the decoded fields as
\* they are, and the message is Acked like any other.
C24_NoValidationOnReceive ==
    \A p \in CodePumps :
        (Finished(p) /\ msg[p] \notin MalformedFor(p)) =>
            /\ stack[p] = CallChain(Route(p, PayloadOf(p)))
            /\ rs[p].calls >= 1
            /\ sent[p] = {HandlerRequest(stack[p][Len(stack[p])], p, PayloadOf(p))}
            /\ ack[p] = "ack"

C24_Witness ==
    /\ Finished("email")
    /\ msg["email"] = UserToJSON("u1", "a@x.com", "Ana")
    /\ InvalidPayload("email")
    /\ stack["email"] = <<"HandleEmailMessage">>
    /\ \E r \in sent["email"] : r.to = "" /\ r.subject = ""
    /\ ack["email"] = "ack"

\* ------------------------------------------------------------------------
\* The three retry implementations, run to their return
\* ------------------------------------------------------------------------

\* email.ExecuteWithRetry: the for loop from `attempt` on; errs[i] is what
\* the i-th call of fn returns
RECURSIVE ExecuteWithRetry_Loop(_, _, _, _)
ExecuteWithRetry_Loop(attempt, config, errs, trace) ==
    IF attempt > config.MaxAttempts
    THEN [trace |-> trace, result |-> "nil"]
    ELSE LET called == Append(trace, <<"call", attempt>>)
         IN IF errs[attempt] = "nil"
            THEN [trace |-> called, result |-> "nil"]
            ELSE IF attempt < config.MaxAttempts
                 THEN ExecuteWithRetry_Loop(attempt + 1, config, errs,
                                            Append(called, <<"wait", config.Delay>>))
                 ELSE ExecuteWithRetry_Loop(attempt + 1, config, errs, called)

\* (variant: after the last failed attempt the last error is returned)
ExecuteWithRetry_ReturnsLastErr(config, errs) ==
    LET run == ExecuteWithRetry_Loop(1, config, errs, <<>>)
    IN IF config.MaxAttempts >= 1 /\ \A i \in 1..config.MaxAttempts : errs[i] # "nil"
       THEN [run EXCEPT !.result = errs[config.MaxAttempts]]
       ELSE run

ExecuteWithRetry(config, errs) == ExecuteWithRetry_Loop(1, config, errs, <<>>)

\* handlers.Retry: the for loop from `attempt` on
RECURSIVE Retry_Loop(_, _, _, _, _)
Retry_Loop(attempt, maxRetries, delay, errs, trace) ==
    IF attempt > maxRetries
    THEN [trace |-> trace, result |-> "nil"]
    ELSE LET called == Append(trace, <<"call", attempt>>)
         IN IF errs[attempt] = "nil"
            THEN [trace |-> called, result |-> "nil"]
            ELSE IF attempt < maxRetries
                 THEN Retry_Loop(attempt + 1, maxRetries, delay, errs,
                                 Append(called, <<"wait", delay>>))
                 ELSE Retry_Loop(attempt + 1, maxRetries, delay, errs, called)

\* (variant: the operation is tried once even when maxRetries is below 1)
Retry_AtLeastOnce(maxRetries, delay, errs) ==
    Retry_Loop(1, IF maxRetries < 1 THEN 1 ELSE maxRetries, delay, errs, <<>>)

Retry(maxRetries, delay, errs) == Retry_Loop(1, maxRetries, delay, errs, <<>>)

\* EmailQueueHandler.retry: the frame r stepped until it returns; cost[i] is
\* the time the i-th call of fn takes
RECURSIVE retry_Run(_, _, _, _)
retry_Run(r, errs, cost, trace) ==
    IF r.at = "call"
    THEN retry_Run(retry_Attempt(r, errs[r.attempt], cost), errs, cost,
                   Append(trace, <<"call", r.attempt>>))
    ELSE IF r.at = "sleep"
    THEN retry_Run(retry_Sleep(r), errs, cost, Append(trace, <<"wait", r.delay>>))
    ELSE [trace |-> trace, result |-> r.result, frame |-> r]

retry(maxRetries, delay, errs) ==
    LET run == retry_Run(retry_Head(retry_Init(maxRetries, delay)), errs, 0, <<>>)
    IN [trace |-> run.trace, result |-> run.result]

\* the three implementations given the same arguments and outcomes
Apply_Retry ==
    /\ pure.fn = "none"
    /\ \E n \in -1..MaxTries, delay \in {0, HandlerDelayMs} :
          \E errs \in [1..(IF n < 1 THEN 1 ELSE n) -> {"nil", "err"}] :
             pure' = [fn |-> "Retry",
                      arg |-> [maxAttempts |-> n, delay |-> delay, errs |-> errs],
                      out |-> [ExecuteWithRetry |->
                                   ExecuteWithRetry([MaxAttempts |-> n, Delay |-> delay], errs),
                               Retry |-> Retry(n, delay, errs),
                               retry |-> retry(n, delay, errs)]]
    /\ UNCHANGED <<pumpVars, wk, bk, pub>>

ProviderAnswers == SendOutcomes \cup {"ok_undecodable"}

\* the provider took the request: resp.StatusCode == http.StatusOK
Accepted(answer) == answer \in {"ok", "ok_undecodable"}

\* h.retry(ctx, 3, 2*time.Second, fn, ...) with fn sending to a provider
\* that gives answers[i] to the i-th request
HandleEmailMessage_Run(answers) ==
    LET errs == [i \in 1..Len(answers) |-> SendEmailWithHTML(answers[i])]
        run == retry_Run(retry_Head(retry_Init(HandlerMaxRetries, HandlerDelayMs)),
                         errs, SendPacingMs, <<>>)
    IN [result |-> run.result,
        calls |-> run.frame.calls,
        waits |-> run.frame.waits,
        elapsed |-> run.frame.elapsed,
        accepted |-> Cardinality({i \in 1..run.frame.calls : Accepted(answers[i])})]

Apply_Handle ==
    /\ pure.fn = "none"
    /\ \E answers \in [1..HandlerMaxRetries -> ProviderAnswers] :
          pure' = [fn |-> "Handle", arg |-> answers, out |-> HandleEmailMessage_Run(answers)]
    /\ UNCHANGED <<pumpVars, wk, bk, pub>>

\* the verification handler on the payload decoded from the message that
\* PublishVerificationEmail publishes for v
Apply_RenderVerification ==
    /\ pure.fn = "none"
    /\ \E v \in VerificationPayloads :
          pure' = [fn |-> "RenderVerification", arg |-> v,
                   out |-> HandlerRequest("HandleVerificationMessage", "verification",
                               UnmarshalValue(VerificationEmailPayload_ToJSON(v),
                                              VerificationFields))]
    /\ UNCHANGED <<pumpVars, wk, bk, pub>>

\* the values RESEND_API_KEY and RESEND_FROM_EMAIL can have in the environment
Environments ==
    [RESEND_API_KEY : {"", "re_key"}, RESEND_FROM_EMAIL : {"", "no-reply@x.com"}]

\* NewResendService: os.Getenv of the two variables into the struct
NewResendService(env) ==
    [apiKey |-> env.RESEND_API_KEY, fromEmail |-> env.RESEND_FROM_EMAIL]

\* (variant: only the API key is checked before the request is built)
ResendService_SendEmailWithHTML_KeyOnly(svc, answer) ==
    IF svc.apiKey = ""
    THEN [err |-> "err", posted |-> FALSE]
    ELSE [err |-> SendEmailWithHTML(answer), posted |-> TRUE]

\* SendEmailWithHTML on a client with credentials svc: the two "not
\* configured" returns come before the request is built and posted
ResendService_SendEmailWithHTML(svc, answer) ==
    IF svc.apiKey = ""
    THEN [err |-> "err", posted |-> FALSE]
    ELSE IF svc.fromEmail = ""
    THEN [err |-> "err", posted |-> FALSE]
    ELSE [err |-> SendEmailWithHTML(answer), posted |-> TRUE]

\* HandleEmailMessage with a client of credentials svc, up to the callback's
\* Ack or Nack
Apply_HandleOn ==
    /\ pure.fn = "none"
    /\ \E env \in Environments, answers \in [1..HandlerMaxRetries -> ProviderAnswers] :
          LET svc == NewResendService(env)
              sends == [i \in 1..Len(answers) |->
                           ResendService_SendEmailWithHTML(svc, answers[i])]
              run == retry_Run(retry_Head(retry_Init(HandlerMaxRetries, HandlerDelayMs)),
                               [i \in 1..Len(answers) |-> sends[i].err], SendPacingMs, <<>>)
          IN pure' = [fn |-> "HandleOn",
                      arg |-> [svc |-> svc, answers |-> answers],
                      out |-> [result |-> run.result,
                               calls |-> run.frame.calls,
                               errs |-> run.frame.outs,
                               posts |-> Cardinality({i \in 1..run.frame.calls :
                                                         sends[i].posted}),
                               ack |-> AckDecision(run.result)]]
    /\ UNCHANGED <<pumpVars, wk, bk, pub>>

\* (variant: the subject is searched as it is written)
handleEmailMessage_IsWelcome_CaseSensitive(subject) ==
    \/ Contains(subject, <<"b", "e", "m", "-", "v", "i", "n", "d", "o">>)
    \/ Contains(subject, <<"w", "e", "l", "c", "o", "m", "e">>)

\* handleEmailMessage of the legacy entry points:
\* isWelcomeEmail := strings.Contains(strings.ToLower(payload.Subject), "bem-vindo") ||
\*                   strings.Contains(strings.ToLower(payload.Subject), "welcome")
handleEmailMessage_IsWelcome(subject) ==
    \/ Contains(ToLower(subject), <<"b", "e", "m", "-", "v", "i", "n", "d", "o">>)
    \/ Contains(ToLower(subject), <<"w", "e", "l", "c", "o", "m", "e">>)

\* the retry loop of handleEmailMessage from `attempt` on; errs[i] is what
\* the i-th send returns.  The send of one attempt is the welcome template
\* through SendEmailWithHTML, or the body through SendEmail.
RECURSIVE handleEmailMessage_Loop(_, _, _, _)
handleEmailMessage_Loop(attempt, isWelcomeEmail, errs, sends) ==
    IF attempt > HandlerMaxRetries
    THEN [sends |-> sends, result |-> "nil"]
    ELSE LET send == IF isWelcomeEmail
                     THEN [attempt |-> attempt, call |-> "SendEmailWithHTML",
                           content |-> "GetWelcomeEmailHTML"]
                     ELSE [attempt |-> attempt, call |-> "SendEmail",
                           content |-> "payload.Body"]
             sent1 == Append(sends, send)
         IN IF errs[attempt] = "nil"
            THEN [sends |-> sent1, result |-> "nil"]
            ELSE handleEmailMessage_Loop(attempt + 1, isWelcomeEmail, errs, sent1)

handleEmailMessage(subject, errs) ==
    handleEmailMessage_Loop(1, handleEmailMessage_IsWelcome(subject), errs, <<>>)

Apply_LegacyHandle ==
    /\ pure.fn = "none"
    /\ \E subject \in Subjects, errs \in [1..HandlerMaxRetries -> {"nil", "err"}] :
          pure' = [fn |-> "LegacyHandle",
                   arg |-> [subject |-> subject, errs |-> errs],
                   out |-> handleEmailMessage(subject, errs)]
    /\ UNCHANGED <<pumpVars, wk, bk, pub>>

NextPure ==
    \/ Apply_Validate
    \/ Apply_RoundTrip
    \/ Apply_IsWelcomeSubject
    \/ Apply_Retry
    \/ Apply_Handle
    \/ Apply_RenderVerification
    \/ Apply_HandleOn
    \/ Apply_LegacyHandle

SpecPure == Init /\ [][NextPure]_vars

\* C23 as stated: in one handler invocation the provider accepts (HTTP 200)
\* at most one send request.
C23_AtMostOneAccepted ==
    pure.fn = "Handle" => pure.out.accepted <= 1

\* the text the verification template shows in its code / link place
ShownInTemplate(html) == html.code

\* C25 as stated: the verification e-mail shows the code when the payload
\* carries a code and the link when it carries a URL; a payload with only a
\* code is never rendered with an empty code/link.
C25_RendersCarriedField ==
    pure.fn = "RenderVerification" =>
        /\ (pure.arg.code # "" /\ pure.arg.verify_url = "") =>
              ShownInTemplate(pure.out.html) = pure.arg.code
        /\ (pure.arg.verify_url # "" /\ pure.arg.code = "") =>
              ShownInTemplate(pure.out.html) = pure.arg.verify_url
        /\ (pure.arg.code # "" \/ pure.arg.verify_url # "") =>
              ShownInTemplate(pure.out.html) \in {pure.arg.code, pure.arg.verify_url} \ {""}

\* the waits of a handler invocation whose attempts all fail
WorstCaseMs == (HandlerMaxRetries - 1) * HandlerDelayMs + HandlerMaxRetries * SendPacingMs

Pump_Step(p) ==
    /\ \/ Callback_Decode(p)
       \/ Handler_Enter(p)
       \/ Retry_Call(p)
       \/ Retry_Wait(p)
       \/ Handler_Return(p)
       \/ Callback_Ack(p)
    /\ UNCHANGED <<wk, bk, pub, pure>>

\* the pumps fed the messages of the worker run
NextFair ==
    \E p \in Pumps :
        \/ DeliverFrom(p, WorkerDocs(p)) /\ UNCHANGED <<wk, bk, pub, pure>>
        \/ Pump_Step(p)

\* Each callback runs on a goroutine of its own: the scheduler lets a
\* runnable goroutine run, time.Sleep returns, and a delivery call is taken
\* to return (the HTTP client has a timeout), so a callback that can take a
\* step eventually takes it.
SpecFair == Init /\ [][NextFair]_vars /\ \A p \in Pumps : WF_vars(Pump_Step(p))

\* C27: a retry executor makes at most maxAttempts delivery calls and at most
\* maxAttempts-1 waits; it waits only after a failed attempt that is not the
\* last, and a wait is followed by another attempt; every dispatched message
\* is eventually acked or nacked.
C27_HandlersTerminate ==
    /\ [](\A p \in Pumps :
            rs[p].at # "none" =>
                /\ rs[p].calls <= rs[p].maxRetries
                /\ rs[p].waits <= rs[p].maxRetries - 1
                /\ rs[p].at = "sleep" =>
                      rs[p].calls < rs[p].maxRetries /\ rs[p].waits = rs[p].calls - 1
                /\ rs[p].at = "ret" => rs[p].calls >= 1 /\ rs[p].waits = rs[p].calls - 1)
    /\ [][\A p \in Pumps :
            (rs[p].at = "sleep" /\ rs'[p] # rs[p]) => rs'[p].at = "call"]_vars
    /\ \A p \in Pumps : (pc[p] # "idle") ~> Finished(p)

C27_Witness ==
    /\ Finished("email")
    /\ ack["email"] = "ack"
    /\ rs["email"].calls = HandlerMaxRetries
    /\ rs["email"].waits = HandlerMaxRetries - 1
    /\ \A i \in 1..Len(rs["email"].outs) : rs["email"].outs[i] # "nil"

\* ------------------------------------------------------------------------
\* The queue entry point: cmd/queue main
\* ------------------------------------------------------------------------

\* the receive loops main starts
QueuePumps == {"email", "verification"}

\* main executes its next startup call: on an error log.Fatalf ends the
\* process with status 1
Queue_Startup ==
    /\ wk.exit = "running"
    /\ wk.run = "startup"
    /\ LET steps == <<"NewClient",
                      "EnsureTopic_email", "EnsureSubscription_email",
                      "EnsureTopic_verification", "EnsureSubscription_verification">>
       IN \E ok \in BOOLEAN :
             wk' = IF ok
                   THEN [wk EXCEPT !.tried = Append(@, steps[wk.step]),
                                   !.step = @ + 1,
                                   !.run = IF wk.step = Len(steps)
                                           THEN "spawn" ELSE "startup"]
                   ELSE [wk EXCEPT !.tried = Append(@, steps[wk.step]),
                                   !.failed = @ \cup {steps[wk.step]},
                                   !.exit = "1"]
    /\ UNCHANGED <<pumpVars, bk, pub, pure>>

\* signal.Notify(sigChan, ...) and the two `go func() {...}()` statements,
\* after which main blocks at <-sigChan
Queue_StartLoops ==
    /\ wk.exit = "running"
    /\ wk.run = "spawn"
    /\ wk' = [wk EXCEPT !.loop = [p \in Pumps |->
                                    IF p \in QueuePumps THEN "receiving" ELSE @[p]],
                        !.run = "wait"]
    /\ UNCHANGED <<pumpVars, bk, pub, pure>>

\* SIGINT or SIGTERM arrives and is queued on sigChan
Queue_Signal ==
    /\ wk.exit = "running"
    /\ wk.run = "wait"
    /\ ~wk.sig
    /\ wk' = [wk EXCEPT !.sig = TRUE]
    /\ UNCHANGED <<pumpVars, bk, pub, pure>>

\* goroutine p pulls a message; a cancelled context stops the pulling
Queue_Deliver(p) ==
    /\ wk.exit = "running"
    /\ wk.loop[p] = "receiving"
    /\ ~wk.ctxDone
    /\ DeliverFrom(p, WorkerDocs(p))
    /\ UNCHANGED <<wk, bk, pub, pure>>

\* a step of the callback of goroutine p, while the process lives; the
\* handlers of cmd/queue (handleEmailMessage, handleVerificationMessage)
\* print the payload and return nil
Queue_Callback(p) ==
    /\ wk.exit = "running"
    /\ wk.loop[p] = "receiving"
    /\ \/ Callback_Decode(p)
       \/ /\ pc[p] = "handler"
          /\ herr' = [herr EXCEPT ![p] = "nil"]
          /\ stack' = [stack EXCEPT ![p] = <<"handle" \o p>>]
          /\ pc' = [pc EXCEPT ![p] = "handled"]
          /\ UNCHANGED <<msg, rs, sent, ack, delivered>>
       \/ Callback_Ack(p)
    /\ UNCHANGED <<wk, bk, pub, pure>>

\* the receive call of goroutine p returns a non-nil error
Queue_Fail(p) ==
    /\ wk.exit = "running"
    /\ wk.loop[p] = "receiving"
    /\ pc[p] = "idle"
    /\ wk' = [wk EXCEPT !.loop[p] = "failed"]
    /\ UNCHANGED <<pumpVars, bk, pub, pure>>

\* if err != nil { log.Printf(...); cancel() }, and the goroutine ends
Queue_Cancel(p) ==
    /\ wk.exit = "running"
    /\ wk.loop[p] = "failed"
    /\ wk' = [wk EXCEPT !.loop[p] = "reported", !.ctxDone = TRUE]
    /\ UNCHANGED <<pumpVars, bk, pub, pure>>

\* the receive call of goroutine p returns nil once the context is cancelled
Queue_Stop(p) ==
    /\ wk.exit = "running"
    /\ wk.loop[p] = "receiving"
    /\ wk.ctxDone
    /\ pc[p] = "idle"
    /\ wk' = [wk EXCEPT !.loop[p] = "stopped"]
    /\ UNCHANGED <<pumpVars, bk, pub, pure>>

\* <-sigChan receives; main logs, calls cancel() and returns: the process
\* and its goroutines end
Queue_Wake ==
    /\ wk.exit = "running"
    /\ wk.run = "wait"
    /\ wk.sig
    /\ wk' = [wk EXCEPT !.ctxDone = TRUE, !.run = "returned", !.result = "nil",
                        !.exit = "0"]
    /\ UNCHANGED <<pumpVars, bk, pub, pure>>

\* the steps the process takes by itself
Queue_Step ==
    \/ Queue_Startup
    \/ Queue_StartLoops
    \/ Queue_Wake
    \/ \E p \in QueuePumps :
          \/ Queue_Callback(p)
          \/ Queue_Cancel(p)
          \/ Queue_Stop(p)

NextQueue ==
    \/ Queue_Step
    \/ Queue_Signal
    \/ \E p \in QueuePumps :
          \/ Queue_Deliver(p)
          \/ Queue_Fail(p)

\* The goroutines and main run when they can; the signal, the arrival of
\* messages and the failure of a receive call are not in the process's hands.
SpecQueue == Init /\ [][NextQueue]_vars /\ WF_vars(Queue_Step)

\* C31 as stated: once a receive loop of the queue entry point returned an
\* error, the context is cancelled, no receive loop keeps receiving, and the
\* process ends, whether or not a termination signal arrives.
C31_LoopErrorShutsDown ==
    \A p \in QueuePumps :
        (wk.loop[p] = "reported") ~>
            (/\ wk.ctxDone
             /\ \A q \in QueuePumps : wk.loop[q] # "receiving"
             /\ Exited)

\* C32: an invocation of the user-creation handler enters the welcome handler
\* exactly once, and every request that handler sends goes to the user's
\* e-mail address, carries the fixed welcome subject, and renders the welcome
\* template with the user's name.
C32_UserDelegatesToWelcome ==
    stack["user"] # <<>> =>
        /\ stack["user"][1] = "HandleUserMessage"
        /\ Cardinality({i \in 1..Len(stack["user"]) :
                           stack["user"][i] = "HandleWelcomeMessage"}) = 1
        /\ rs["user"].at # "none"
        /\ \A req \in sent["user"] :
              /\ req.to = PayloadOf("user")["email"]
              /\ req.subject = WelcomeSubject
              /\ req.html = GetWelcomeEmailHTML(PayloadOf("user")["name"])

C32_Witness ==
    /\ Finished("user")
    /\ msg["user"] = UserToJSON("u1", "a@x.com", "Ana")
    /\ \E req \in sent["user"] : req.to = "a@x.com" /\ req.html.username = "Ana"
    /\ rs["user"].calls = 2

\* ------------------------------------------------------------------------
\* The delivery client's credentials
\* ------------------------------------------------------------------------

\* (variant: every handler constructs a client of its own)
ConstructsService_Always(h) == TRUE

\* the handler calls email.NewResendService() itself instead of using the
\* client it was given
ConstructsService(h) == h = "HandleVerificationMessage"

\* the process starts with its environment and constructs the client:
\* emailService := email.NewResendService()
Service_New ==
    /\ ~wk.built
    /\ \E env \in Environments :
          wk' = [wk EXCEPT !.env = env, !.svc = NewResendService(env),
                        !.built = TRUE, !.envReads = 1]
    /\ UNCHANGED <<pumpVars, bk, pub, pure>>

\* one invocation of handler h: the client it sends with and whether it read
\* the environment for it
Service_Invoke(h) ==
    /\ wk.built
    /\ Len(wk.uses) < MaxCalls
    /\ LET own == ConstructsService(h)
       IN wk' = [wk EXCEPT
                   !.envReads = IF own THEN @ + 1 ELSE @,
                   !.uses = Append(@, [handler |-> h,
                                       read |-> own,
                                       creds |-> IF own THEN NewResendService(wk.env)
                                                 ELSE wk.svc])]
    /\ UNCHANGED <<pumpVars, bk, pub, pure>>

\* the handlers that send are the methods of EmailQueueHandler and the
\* package-level functions of queue.go
NextService ==
    \/ Service_New
    \/ \E h \in {"EmailQueueHandler.HandleEmailMessage",
                  "EmailQueueHandler.HandleWelcomeMessage",
                  "EmailQueueHandler.HandleVerificationMessage",
                  "HandleEmailMessage", "HandleWelcomeEmailMessage",
                  "HandleVerificationMessage"} : Service_Invoke(h)

SpecService == Init /\ [][NextService]_vars

C34_RetryStatePerInvocation ==
    /\ [](\A p \in Pumps :
            /\ rs[p].at # "none" => rs[p].maxRetries = HandlerMaxRetries
            /\ rs[p].at = "call" =>
                  rs[p].attempt = rs[p].calls + 1 /\ rs[p].attempt \in 1..rs[p].maxRetries
            /\ rs[p].at = "sleep" => rs[p].attempt = rs[p].calls)
    /\ [][\A p \in Pumps :
            /\ (pc[p] = "handler" /\ pc'[p] = "retry") =>
                  /\ rs'[p].at = "call"
                  /\ rs'[p].attempt = 1
                  /\ rs'[p].calls = 0 /\ rs'[p].waits = 0
                  /\ rs'[p].outs = <<>> /\ rs'[p].lastErr = "nil"
            /\ (pc[p] = "retry" /\ pc'[p] = "retry") =>
                  rs'[p].attempt \in {rs[p].attempt, rs[p].attempt + 1}
            /\ rs'[p] # rs[p] => \A q \in Pumps \ {p} : rs'[q] = rs[q]]_vars

\* a later invocation on the email pump (every message so far was delivered
\* to it), at its first attempt
C34_Witness ==
    /\ delivered = MaxMsgs
    /\ msg["verification"] = NoMsg /\ msg["user"] = NoMsg
    /\ ack["email"] = "none"
    /\ rs["email"].at = "call" /\ rs["email"].attempt = 1 /\ rs["email"].calls = 0

\* C35 as stated: a send returns an error exactly when the provider's answer
\* is not a success (HTTP 200), and every error returned is one failed
\* attempt of the retry executor.
C35_ErrorIffNotSuccess ==
    (pure.fn = "HandleOn" /\ pure.arg.svc.apiKey # "" /\ pure.arg.svc.fromEmail # "") =>
        /\ \A i \in 1..pure.out.calls :
              pure.out.errs[i] # "nil" <=> ~Accepted(pure.arg.answers[i])
        /\ Len(pure.out.errs) = pure.out.calls

\* C36: on a client without API key or without from address every attempt
\* fails before a request is posted; the executor makes maxAttempts attempts
\* and returns nil, and the callback acknowledges the message.
C36_UnconfiguredFailsWithoutRequest ==
    (pure.fn = "HandleOn" /\ (pure.arg.svc.apiKey = "" \/ pure.arg.svc.fromEmail = "")) =>
        /\ pure.out.posts = 0
        /\ pure.out.calls = HandlerMaxRetries
        /\ \A i \in 1..pure.out.calls : pure.out.errs[i] # "nil"
        /\ pure.out.result = "nil"
        /\ pure.out.ack = "ack"

C36_Witness ==
    /\ pure.fn = "HandleOn"
    /\ pure.arg.svc.apiKey # "" /\ pure.arg.svc.fromEmail = ""
    /\ \A i \in 1..HandlerMaxRetries : pure.arg.answers[i] = "ok"
    /\ pure.out.calls = HandlerMaxRetries /\ pure.out.posts = 0 /\ pure.out.ack = "ack"

\* C37: with maxAttempts below 1 each retry implementation returns nil
\* without a call of the operation and without a wait, and the callback
\* acknowledges the message on that nil.
C37_NoAttemptBelowOne ==
    (pure.fn = "Retry" /\ pure.arg.maxAttempts < 1) =>
        \A f \in {"ExecuteWithRetry", "Retry", "retry"} :
            /\ pure.out[f].trace = <<>>
            /\ pure.out[f].result = "nil"
            /\ AckDecision(pure.out[f].result) = "ack"

C37_Witness ==
    /\ pure.fn = "Retry"
    /\ pure.arg.maxAttempts = 0
    /\ pure.arg.errs = <<"nil">>
    /\ pure.out.Retry = [trace |-> <<>>, result |-> "nil"]

\* the subject has bem-vindo or welcome in it, in any case
LegacyWelcomePattern(t) ==
    \E sub \in { <<"b", "e", "m", "-", "v", "i", "n", "d", "o">>,
                  <<"w", "e", "l", "c", "o", "m", "e">> } :
        \E i \in 0..Len(t) : MatchesAt(t, sub, i)

\* C38: the legacy handleEmailMessage sends the welcome HTML template when
\* the subject contains bem-vindo or welcome in any case, and the body as
\* plain text otherwise; every attempt of the invocation sends the same way.
C38_LegacyWelcomeChoice ==
    pure.fn = "LegacyHandle" =>
        /\ Len(pure.out.sends) >= 1
        /\ \A i \in 1..Len(pure.out.sends) :
              /\ pure.out.sends[i].attempt = i
              /\ pure.out.sends[i].call =
                    (IF LegacyWelcomePattern(pure.arg.subject)
                     THEN "SendEmailWithHTML" ELSE "SendEmail")
              /\ pure.out.sends[i].content =
                    (IF LegacyWelcomePattern(pure.arg.subject)
                     THEN "GetWelcomeEmailHTML" ELSE "payload.Body")
              /\ pure.out.sends[i].call = pure.out.sends[1].call

C38_Witness ==
    /\ pure.fn = "LegacyHandle"
    /\ pure.arg.subject = <<"B", "E", "M", "-", "V", "I", "N", "D", "O">>
    /\ Len(pure.out.sends) = HandlerMaxRetries
    /\ pure.out.sends[HandlerMaxRetries].call = "SendEmailWithHTML"

\* C39: errChan has room for one error per receive loop, so a loop whose
\* receive call failed can always send its error at once: the channel is
\* never full when a loop is about to send, also when every loop fails and
\* when run has returned and nobody reads the channel any more.
C39_ErrorSendNeverBlocks ==
    /\ (\E p \in Pumps : wk.loop[p] # "notStarted") => ErrChanCap = Cardinality(Pumps)
    /\ Len(wk.errChan) <= Cardinality({p \in Pumps : wk.loop[p] = "reported"})
    /\ \A p \in Pumps :
          (wk.loop[p] = "failed" /\ ~Exited) =>
              /\ Len(wk.errChan) < ErrChanCap
              /\ ENABLED Loop_Send(p)

C39_Witness ==
    /\ \A p \in Pumps : wk.loop[p] = "reported"
    /\ Len(wk.errChan) = ErrChanCap
    /\ wk.run = "returned" /\ wk.result = "nil"

====
